---------------------------- MODULE Spec2Model ----------------------------
(***************************************************************************)
(* Tenant isolation and query scoping of the S-IMSY reporting API worker.  *)
(*                                                                         *)
(* The module holds several specifications over one set of variables:      *)
(*   SpecFilter   - tenantFilter applied to an identity and evaluated by   *)
(*                  the database against a tenant hierarchy;               *)
(*   SpecHandlers - the data-access handlers building and running their    *)
(*                  queries for one request;                               *)
(*   SpecAuth     - the Session Store, session creation and revocation,   *)
(*                  and authenticateTenant;                                *)
(*   SpecGuard    - fetch / withTenantContext: transaction, session-local  *)
(*                  settings, callback, commit or rollback;                *)
(*   SpecRoute    - routeRequest, the admin guard and the responses of     *)
(*                  fetch;                                                 *)
(*   SpecReset    - session creation beside password reset and user        *)
(*                  deletion;                                              *)
(*   SpecRateLimit - concurrent checkRateLimit calls of one tenant;        *)
(*   SpecLogin    - concurrent handleLogin, handleVerifyOTP and            *)
(*                  handleForgotPassword requests for one account.         *)
(* A specification leaves the variables of the others at their initial     *)
(* values.                                                                 *)
(***************************************************************************)
EXTENDS Integers, Sequences, FiniteSets, TLC

VARIABLES
    rpt_tenants,   \* table rpt_tenants: tenant_id -> parent_tenant_id (or NULL)
    fTenant,       \* SpecFilter: the TenantInfo passed to tenantFilter
    fStartIdx,     \* SpecFilter: the startIdx passed to tenantFilter
    fOut,          \* SpecFilter: the value tenantFilter returned
    fMatched,      \* SpecFilter: the rows the returned clause matches
    hTenant,       \* SpecHandlers: the TenantInfo of the request
    hHandler,      \* SpecHandlers: the handler the request was routed to
    hParams,       \* SpecHandlers: the caller-supplied query parameters
    hQueries,      \* SpecHandlers: the queries the handler issued, with their rows
    now,           \* SpecAuth: the clock, Math.floor(Date.now() / 1000)
    kv,            \* SpecAuth: TENANT_KV entries under session:<hash>, with expiry
    auth_sessions, \* SpecAuth: table auth_sessions
    login,         \* SpecAuth: each handleVerifyOTP invocation: position and JWT
    revoked,       \* SpecAuth: token hashes whose logout or revocation completed
    invalidated,   \* SpecAuth: token hashes of the sessions a password reset or a
                   \*           user deletion found for its user
    aPc,           \* SpecAuth: "idle", or "resolved" once authenticateTenant returned
    aReq,          \* SpecAuth: the credential headers of the request
    aOut,          \* SpecAuth: what authenticateTenant returned
    auth_users,    \* SpecGuard: table auth_users
    requests,      \* SpecGuard: each request: position, identity, transaction
    committed,     \* SpecGuard: the writes of committed transactions
    pool,          \* SpecGuard: the session-level settings of each pooled connection
    rtReq,         \* SpecRoute: identity, method, path and failure of the request
    rtOut,         \* SpecRoute: the response, and the handler that ran
    rlNow,         \* SpecRateLimit: the clock, in seconds
    rlStore,       \* SpecRateLimit: the value under ratelimit:<tenantId> in TENANT_KV
    rlProc,        \* SpecRateLimit: each checkRateLimit call: position, locals, result
    rlGranted,     \* SpecRateLimit: per window end, the weights of the calls allowed
    lgNow,         \* SpecLogin: the clock, in minutes
    lgUser,        \* SpecLogin: failed_logins and locked_until of the account's row
    lgOtps,        \* SpecLogin: the login_2fa rows of auth_otp, oldest first
    lgPending,     \* SpecLogin: otp_pending and reset_pending entries of TENANT_KV
    lgProc,        \* SpecLogin: each public auth request: position, locals, response
    lgWrong,       \* SpecLogin: wrong passwords checked since the last correct one
    lgLocked       \* SpecLogin: a lock was written since the last correct password

filterVars == <<fTenant, fStartIdx, fOut, fMatched>>
handlerVars == <<hTenant, hHandler, hParams, hQueries>>
authVars == <<now, kv, auth_sessions, login, revoked, invalidated, aPc, aReq, aOut>>
guardVars == <<auth_users, requests, committed, pool>>
routeVars == <<rtReq, rtOut>>
limitVars == <<rlNow, rlStore, rlProc, rlGranted>>
loginVars == <<lgNow, lgUser, lgOtps, lgPending, lgProc, lgWrong, lgLocked>>
edgeVars == <<routeVars, limitVars, loginVars>>
vars == <<rpt_tenants, filterVars, handlerVars, authVars, guardVars, edgeVars>>

\* ------------------------------------------------------------------ data

NULL == "NULL"
None == "None"

Roles == {"admin", "tenant", "customer"}

\* Tenants that own reporting rows; each has a row in rpt_tenants.
Tenants == {"T1", "T2", "T3", "T4"}
\* A tenant_id that owns no rows and has no rpt_tenants row.
GhostTenant == "T9"
\* The tenant_id the admin accounts carry.
AdminTenant == "T1"

Customers == {"custA", "custB"}

\* Rows of a tenant-owned reporting table (rpt_usage, rpt_bundle_instances, ...).
ReportRows == [tenant_id : Tenants, customer_name : Customers]

\* parent_tenant_id chains end in NULL: the hierarchy is a forest.
RECURSIVE Depth(_, _, _)
Depth(h, t, fuel) ==
    IF t = NULL THEN 0
    ELSE IF fuel = 0 THEN Cardinality(Tenants) + 1
    ELSE 1 + Depth(h, h[t], fuel - 1)

Hierarchies ==
    {h \in [Tenants -> Tenants \cup {NULL}] :
        \A t \in Tenants : Depth(h, t, Cardinality(Tenants)) <= Cardinality(Tenants)}

\* ------------------------------------------------------------ SQL text

\* Statement text is a sequence of tokens; "$n" is the placeholder of index n.
Dollar == <<"$1", "$2", "$3", "$4", "$5", "$6", "$7", "$8", "$9", "$10", "$11", "$12">>
Placeholders == {Dollar[i] : i \in 1..Len(Dollar)}
PhIndex(tok) == CHOOSE i \in 1..Len(Dollar) : Dollar[i] = tok

TenantSubqueryHead ==
    "tenant_id IN (SELECT t.tenant_id FROM rpt_tenants t WHERE t.tenant_id = "
TenantSubqueryMid == " OR t.parent_tenant_id = "

\* tenantFilter with the admin branch missing.
tenantFilter_NoAdminBranch(tenant, startIdx) ==
    [clause  |-> <<TenantSubqueryHead, Dollar[startIdx],
                   TenantSubqueryMid, Dollar[startIdx], ")">>,
     params  |-> <<tenant.tenant_id>>,
     nextIdx |-> startIdx + 1]

\* tenantFilter with the comparison on the child side dropped from the subquery.
tenantFilter_OwnOnly(tenant, startIdx) ==
    IF tenant.role = "admin"
    THEN [clause |-> <<"1=1">>, params |-> <<>>, nextIdx |-> startIdx]
    ELSE [clause  |-> <<"tenant_id = ", Dollar[startIdx], "">>,
          params  |-> <<tenant.tenant_id>>,
          nextIdx |-> startIdx + 1]

\* tenantFilter returning the start index as nextIdx for every role.
tenantFilter_NoAdvance(tenant, startIdx) ==
    IF tenant.role = "admin"
    THEN [clause |-> <<"1=1">>, params |-> <<>>, nextIdx |-> startIdx]
    ELSE [clause  |-> <<TenantSubqueryHead, Dollar[startIdx],
                        TenantSubqueryMid, Dollar[startIdx], ")">>,
          params  |-> <<tenant.tenant_id>>,
          nextIdx |-> startIdx]

\* tenantFilter keeping a module-level note of having been called: a call
\* after the first skips one index.
tenantFilter_RemembersCalls(tenant, startIdx) ==
    IF tenant.role = "admin"
    THEN [clause |-> <<"1=1">>, params |-> <<>>, nextIdx |-> startIdx]
    ELSE [clause  |-> <<TenantSubqueryHead, Dollar[startIdx],
                        TenantSubqueryMid, Dollar[startIdx], ")">>,
          params  |-> <<tenant.tenant_id>>,
          nextIdx |-> IF fStartIdx = 0 THEN startIdx + 1 ELSE startIdx + 2]

\* tenantFilter writing the tenant_id into the clause text as well.
tenantFilter_TenantInText(tenant, startIdx) ==
    IF tenant.role = "admin"
    THEN [clause |-> <<"1=1">>, params |-> <<>>, nextIdx |-> startIdx]
    ELSE [clause  |-> <<TenantSubqueryHead, Dollar[startIdx],
                        TenantSubqueryMid, Dollar[startIdx], ")",
                        " /* ", tenant.tenant_id, " */">>,
          params  |-> <<tenant.tenant_id>>,
          nextIdx |-> startIdx + 1]

tenantFilter(tenant, startIdx) ==
    IF tenant.role = "admin"
    THEN [clause |-> <<"1=1">>, params |-> <<>>, nextIdx |-> startIdx]
    ELSE [clause  |-> <<TenantSubqueryHead, Dollar[startIdx],
                        TenantSubqueryMid, Dollar[startIdx], ")">>,
          params  |-> <<tenant.tenant_id>>,
          nextIdx |-> startIdx + 1]

\* --------------------------------------------------- database evaluation

\* The value bound to a placeholder: parameters are positional.
Arg(tok, params) == params[PhIndex(tok)]

\* Every placeholder of a filter has a parameter.
FilterBound(f, params) ==
    \A i \in 1..Len(f) : f[i] \in Placeholders => PhIndex(f[i]) <= Len(params)

\* rpt_endpoints has customer_id but no customer_name column.
CustIdOf(c) == IF c = "custA" THEN "idA" ELSE IF c = "custB" THEN "idB" ELSE None

TenantRows == {[tenant_id |-> t, customer_name |-> None] : t \in Tenants}
TableRows(table) == IF table = "rpt_tenants" THEN TenantRows ELSE ReportRows

\* Conjuncts that narrow by a column other than tenant and customer. Every
\* modelled row carries the value the request asks for, unless the request asks
\* for NoMatch.
NoMatch == "nomatch"
NarrowingHeads ==
    {"dateCol >= ", "dateCol <= ", "usage_date >= ", "usage_date <= ",
     "timestamp >= ", "timestamp <= ", "iccid = ", "iccid ILIKE ",
     "(bundle_moniker = ", "end_time <= ", "LOWER(status_name) = LOWER(",
     "(LOWER(effective_status) = LOWER(", "(LOWER(status) = LOWER(",
     "(endpoint_name ILIKE ", "(id::text = ", "endpoint_name = ",
     "bundle_moniker = ", "endpoint_name IN (",
     "sequence IS NOT NULL AND sequence_max IS NOT NULL AND sequence = sequence_max",
     "LOWER(effective_status) = 'live'", "LOWER(effective_status) IN ('active', 'live')",
     "(sequence IS NOT NULL AND ... NOT EXISTS (SELECT 1 FROM instances nxt ...))",
     "customer_name IS NOT NULL", "customer_name != ''",
     "usage_date >= date_trunc('month', NOW() - ("}

FilterArgs(f, params) ==
    {Arg(f[i], params) : i \in {j \in 1..Len(f) : f[j] \in Placeholders}}

CustomerSubqueryHead ==
    "endpoint_name IN (SELECT DISTINCT endpoint_name FROM rpt_bundle_instances WHERE customer_name = "

\* The truth of one WHERE conjunct on one row.
EvalFilter(f, params, row) ==
    CASE f = <<"1=1">> -> TRUE
      [] f[1] = TenantSubqueryHead ->
            row.tenant_id \in
                {t \in DOMAIN rpt_tenants :
                    \/ t = Arg(f[2], params)
                    \/ rpt_tenants[t] = Arg(f[4], params)}
      [] f[1] = "tenant_id = " /\ Len(f) = 3 -> row.tenant_id = Arg(f[2], params)
      [] f[1] = "tenant_id = " /\ Len(f) = 4 ->
            \/ row.tenant_id = Arg(f[2], params)
            \/ rpt_tenants[row.tenant_id] = Arg(f[4], params)
      [] f[1] = "customer_name = " -> row.customer_name = Arg(f[2], params)
      [] f[1] = "customer_id = " -> CustIdOf(row.customer_name) = Arg(f[2], params)
      [] f[1] = CustomerSubqueryHead -> row.customer_name = Arg(f[2], params)
      [] f[1] \in NarrowingHeads -> NoMatch \notin FilterArgs(f, params)
      [] OTHER -> FALSE

\* The placeholder indexes a statement refers to.
Referenced(toks) ==
    {PhIndex(toks[i]) : i \in {j \in 1..Len(toks) : toks[j] \in Placeholders}}

RECURSIVE Flatten(_)
Flatten(ss) == IF ss = <<>> THEN <<>> ELSE Head(ss) \o Flatten(Tail(ss))

\* Columns a table lacks (rpt_endpoints carries customer_id, not customer_name).
MissingColumn(table, f) ==
    \/ table = "rpt_endpoints" /\ f[1] = "customer_name = "
    \/ table # "rpt_endpoints" /\ f[1] = "customer_id = "

\* sql.unsafe(text, params): the statement runs when its placeholders are
\* exactly $1..$n for the n parameters bound and its columns exist; the rows
\* it reads are those every WHERE conjunct accepts.
Query(table, filters, tail, params, returned) ==
    LET ok == /\ Referenced(Flatten(filters) \o tail) = 1..Len(params)
              /\ \A i \in 1..Len(filters) : ~MissingColumn(table, filters[i])
    IN [table |-> table, filters |-> filters, tail |-> tail, params |-> params,
        returned |-> returned, ok |-> ok,
        rows |-> IF ok
                 THEN {r \in TableRows(table) :
                          \A i \in 1..Len(filters) : EvalFilter(filters[i], params, r)}
                 ELSE {}]

\* The parameters a caller holds before the filter's own: startIdx - 1 of them.
Pad(n) == [i \in 1..n |-> "pad"]

\* ------------------------------------------------------------ SpecFilter

MaxStartIdx == 3

NoTenant == [tenant_id |-> None, role |-> None, customer_name |-> None,
             customer_id |-> None, auth_method |-> None]

TenantInfo(tid, role, cust, method) ==
    [tenant_id |-> tid, role |-> role, customer_name |-> cust,
     customer_id |-> None, auth_method |-> method]

\* Identities tenantFilter is called with. A service-token record is returned
\* as it is stored, so its role may be none of the three: "viewer".
FilterIdentities ==
    {TenantInfo(t, "admin", None, "jwt") : t \in Tenants \cup {GhostTenant}}
    \cup {TenantInfo(t, "tenant", None, "jwt") : t \in Tenants \cup {GhostTenant}}
    \cup {TenantInfo(t, "customer", c, "jwt") : t \in Tenants, c \in Customers}
    \cup {TenantInfo(t, "viewer", None, "service_token") : t \in {"T1", "T2"}}

FilterIdle ==
    /\ fTenant = NoTenant
    /\ fStartIdx = 0
    /\ fOut = [clause |-> <<>>, params |-> <<>>, nextIdx |-> 0]
    /\ fMatched = {}

HandlersIdle ==
    /\ hTenant = NoTenant
    /\ hHandler = None
    /\ hParams = None
    /\ hQueries = <<>>

\* ------------------------------------------------- tokens and Session Store

\* A JWT: the signature's standing, and the payload createJWT signs.
NoToken == [sig |-> "none", sub |-> None, tenant_id |-> None, role |-> None,
            customer_name |-> None, exp |-> 0, jti |-> None]

\* The handleVerifyOTP invocations; crypto.randomUUID gives each its own jti.
Logins == {"p1", "p2"}
JtiOf(p) == IF p = "p1" THEN "jti-p1" ELSE "jti-p2"
Jtis == {JtiOf(p) : p \in Logins}

\* SHA-256 of a jti, base64: distinct jtis have distinct hashes.
hashTokenId(jti) ==
    CASE jti = "jti-p1" -> "sha256-5f1c"
      [] jti = "jti-p2" -> "sha256-a07e"
      [] OTHER -> "sha256-e3b0"

\* auth_users joined with rpt_tenants, as handleVerifyOTP reads it.
AuthUsers == {"u1", "u2"}
UserRow(u) ==
    IF u = "u1"
    THEN [tenant_id |-> "T1", role |-> "tenant", customer_name |-> None]
    ELSE [tenant_id |-> "T2", role |-> "customer", customer_name |-> "custA"]

\* SESSION_TTL_HOURS, in clock ticks.
SessionTtl == 2
MaxNow == 3

createJWT(u, p) ==
    [sig |-> "good", sub |-> u, tenant_id |-> UserRow(u).tenant_id,
     role |-> UserRow(u).role, customer_name |-> UserRow(u).customer_name,
     exp |-> now + SessionTtl, jti |-> JtiOf(p)]

\* The payload when the token has three parts, its HMAC verifies and exp is not
\* before now; null (NoToken) otherwise.
verifyJWT(token) ==
    IF token.sig # "good" THEN NoToken
    ELSE IF token.exp < now THEN NoToken
    ELSE token

\* TENANT_KV.get: a key is read until its expirationTtl has run out.
KVGet(key) == \E m \in kv : m.key = key /\ now < m.expiresAt
KVPut(key, ttl) == {m \in kv : m.key # key} \cup {[key |-> key, expiresAt |-> now + ttl]}
KVDelete(key) == {m \in kv : m.key # key}

\* token:<clientId> entries of TENANT_KV, provisioned outside the worker.
KnownClientId == "cid-known"
UnknownClientId == "cid-unknown"
ServiceTokenInfo(clientId) ==
    IF clientId = KnownClientId
    THEN [tenant_id |-> "T1", role |-> "tenant", customer_name |-> None,
          customer_id |-> None]
    ELSE [tenant_id |-> None, role |-> None, customer_name |-> None,
          customer_id |-> None]

AuthIdle ==
    /\ now = 0
    /\ kv = {}
    /\ auth_sessions = {}
    /\ login = [p \in Logins |-> [pc |-> "start", token |-> NoToken]]
    /\ revoked = {}
    /\ invalidated = {}
    /\ aPc = "idle"
    /\ aReq = [scheme |-> None, token |-> NoToken, client_id |-> None, x_tenant_id |-> None]
    /\ aOut = NoTenant

\* ------------------------------------------------ statements built as text

\* SpecGuard spells a string as the sequence of its pieces, so that the quote
\* character is seen: <<"O", "'", "Brien">> is O'Brien, <<>> is the empty or
\* missing string.
Quote == "'"
SetTenantHead == "SET LOCAL app.current_tenant = "
SetCustomerHead == "SET LOCAL app.current_customer = "
\* The same settings written without LOCAL: they outlive a committed transaction.
SetSessionTenantHead == "SET app.current_tenant = "
SetSessionCustomerHead == "SET app.current_customer = "
Unset == <<"(unset)">>
Wildcard == <<"*">>

\* `SET LOCAL <name> = '${value}'`
SetLocalText(head, value) == <<head, Quote>> \o value \o <<Quote>>

\* The string constant that starts after an opening quote: a doubled quote is
\* one quote character, a single quote ends the constant.
RECURSIVE ReadLiteral(_, _)
ReadLiteral(toks, acc) ==
    IF toks = <<>> THEN [ok |-> FALSE, value |-> acc, rest |-> <<>>]
    ELSE IF Head(toks) = Quote
    THEN IF Len(toks) >= 2 /\ toks[2] = Quote
         THEN ReadLiteral(SubSeq(toks, 3, Len(toks)), Append(acc, Quote))
         ELSE [ok |-> TRUE, value |-> acc, rest |-> Tail(toks)]
    ELSE ReadLiteral(Tail(toks), Append(acc, Head(toks)))

\* tx.unsafe(text) with no parameters: the server parses the whole text, which
\* may hold several statements separated by ";", and runs them in order; text
\* that does not parse runs nothing and fails. ctx.settings are the values the
\* transaction sees, ctx.pending those written at session level, which are kept
\* by the connection when the transaction commits.
RECURSIVE RunStatements(_, _)
RunStatements(toks, ctx) ==
    IF /\ Len(toks) >= 2
       /\ toks[1] \in {SetTenantHead, SetCustomerHead,
                       SetSessionTenantHead, SetSessionCustomerHead}
       /\ toks[2] = Quote
    THEN LET lit == ReadLiteral(SubSeq(toks, 3, Len(toks)), <<>>)
             after ==
                CASE toks[1] = SetTenantHead ->
                        [ctx EXCEPT !.settings.current_tenant = lit.value]
                  [] toks[1] = SetCustomerHead ->
                        [ctx EXCEPT !.settings.current_customer = lit.value]
                  [] toks[1] = SetSessionTenantHead ->
                        [ctx EXCEPT !.settings.current_tenant = lit.value,
                                    !.pending.current_tenant = lit.value]
                  [] OTHER ->
                        [ctx EXCEPT !.settings.current_customer = lit.value,
                                    !.pending.current_customer = lit.value]
         IN IF ~lit.ok THEN [ok |-> FALSE, settings |-> ctx.settings, pending |-> ctx.pending]
            ELSE IF lit.rest = <<>>
            THEN [ok |-> TRUE, settings |-> after.settings, pending |-> after.pending]
            ELSE IF Head(lit.rest) = ";" THEN RunStatements(Tail(lit.rest), after)
            ELSE [ok |-> FALSE, settings |-> ctx.settings, pending |-> ctx.pending]
    ELSE [ok |-> FALSE, settings |-> ctx.settings, pending |-> ctx.pending]

Slots == {"r1", "r2"}
\* The connections of the pool behind env.HYPERDRIVE.
Conns == {"c1", "c2"}
UserIds == {"u0", "u1"}
NoUser == [role |-> None, tenant_id |-> <<>>, customer_name |-> <<>>]
GuardNoTenant == [tenant_id |-> <<>>, role |-> None, customer_name |-> <<>>,
                  customer_id |-> <<>>, auth_method |-> None]
NoSettings == [current_tenant |-> Unset, current_customer |-> Unset]
IdleRequest ==
    [pc |-> "idle", tenant |-> GuardNoTenant, conn |-> None,
     settings |-> NoSettings, pending |-> NoSettings,
     atCallback |-> NoSettings, writes |-> {}, seen |-> {},
     cbResult |-> None, outcome |-> None]

GuardIdle ==
    /\ auth_users = [u \in UserIds |->
                        IF u = "u0"
                        THEN [role |-> "admin", tenant_id |-> <<"T1">>, customer_name |-> <<>>]
                        ELSE NoUser]
    /\ requests = [r \in Slots |-> IdleRequest]
    /\ committed = {}
    /\ pool = [c \in Conns |-> NoSettings]

NoFailure == [at |-> None, msg |-> <<>>]
NoRouteRequest == [tenant |-> NoTenant, method |-> None, apiPath |-> <<>>,
                   failure |-> NoFailure]
NoResponse == [status |-> 0, body |-> [data |-> None], handler |-> None]

RouteIdle ==
    /\ rtReq = NoRouteRequest
    /\ rtOut = NoResponse

\* The requests of one tenant that may be in checkRateLimit at once.
Callers == {"q1", "q2"}
\* state === null reads like a window that has ended.
NoRateState == [count |-> 0, resetAt |-> 0]
IdleCall == [pc |-> "idle", weight |-> 0, now |-> 0, state |-> NoRateState,
             allowed |-> FALSE, resetAt |-> 0]

RateIdle ==
    /\ rlNow = 0
    /\ rlStore = NoRateState
    /\ rlProc = [p \in Callers |-> IdleCall]
    /\ rlGranted = <<>>

\* The public auth requests that may be in flight at once.
Clients == {"k1", "k2"}
NoSeen == [failed_logins |-> 0, locked_until |-> 0, otp |-> 0, attempts |-> 0]
NoAnswer == [status |-> 0, body |-> [status |-> "none"]]
IdleClient == [op |-> "none", pc |-> "idle", password |-> "", otp_token |-> 0,
               code |-> 0, seen |-> NoSeen, response |-> NoAnswer]

LoginIdle ==
    /\ lgNow = 0
    /\ lgUser = [failed_logins |-> 0, locked_until |-> 0]
    /\ lgOtps = <<>>
    /\ lgPending = {}
    /\ lgProc = [p \in Clients |-> IdleClient]
    /\ lgWrong = 0
    /\ lgLocked = FALSE

EdgeIdle ==
    /\ RouteIdle
    /\ RateIdle
    /\ LoginIdle

InitFilter ==
    /\ rpt_tenants \in Hierarchies
    /\ FilterIdle
    /\ HandlersIdle
    /\ AuthIdle
    /\ GuardIdle
    /\ EdgeIdle

CallTenantFilter ==
    \E t \in FilterIdentities, n \in 1..MaxStartIdx :
        LET out == tenantFilter(t, n) IN
        /\ fTenant' = t
        /\ fStartIdx' = n
        /\ fOut' = out
        /\ fMatched' = {r \in ReportRows :
                            EvalFilter(out.clause, Pad(n - 1) \o out.params, r)}
        /\ UNCHANGED <<rpt_tenants, edgeVars, handlerVars, authVars, guardVars>>

NextFilter == CallTenantFilter

SpecFilter == InitFilter /\ [][NextFilter]_vars

\* The tenants a non-admin identity with tenant_id T may see.
Visible(T) == {T} \cup {t \in DOMAIN rpt_tenants : rpt_tenants[t] = T}

C4_AdminTautology ==
    fTenant.role = "admin" =>
        /\ fOut.clause = <<"1=1">>
        /\ fOut.params = <<>>
        /\ fOut.nextIdx = fStartIdx
        /\ fMatched = ReportRows

C4_Witness ==
    /\ fTenant.role = "admin"
    /\ fTenant.tenant_id = GhostTenant
    /\ fStartIdx = 3
    /\ fOut.nextIdx = 3

C17_UnknownRoleYieldsNoPredicate ==
    (fStartIdx > 0 /\ fTenant.role \notin Roles) => fOut.clause = <<>>

\* C23: tenantFilter returns nextIdx = N for an admin and N + 1 for a tenant
\* or customer, every placeholder of its clause has index N, and none has
\* index nextIdx.
C23_NextIdxNeverCollides ==
    fStartIdx > 0 =>
        /\ fTenant.role = "admin" => fOut.nextIdx = fStartIdx
        /\ fTenant.role \in {"tenant", "customer"} => fOut.nextIdx = fStartIdx + 1
        /\ \A i \in 1..Len(fOut.clause) :
              fOut.clause[i] \in Placeholders =>
                  /\ PhIndex(fOut.clause[i]) = fStartIdx
                  /\ PhIndex(fOut.clause[i]) # fOut.nextIdx

\* A tenant asked for its predicate at start index 3: both placeholders are
\* $3 and the caller continues at 4.
C23_Witness ==
    /\ fTenant.role = "tenant"
    /\ fStartIdx = 3
    /\ fOut.clause[2] = "$3"
    /\ fOut.clause[4] = "$3"
    /\ fOut.nextIdx = 4

Builder(tf) == [filters |-> <<tf.clause>>, params |-> tf.params, paramIdx |-> tf.nextIdx]

\* A push that forgets paramIdx++.
Push_NoIncrement(b, head, close, value) ==
    [filters  |-> Append(b.filters, <<head, Dollar[b.paramIdx], close>>),
     params   |-> Append(b.params, value),
     paramIdx |-> b.paramIdx]

Push(b, head, close, value) ==
    [filters  |-> Append(b.filters, <<head, Dollar[b.paramIdx], close>>),
     params   |-> Append(b.params, value),
     paramIdx |-> b.paramIdx + 1]

PushIf(cond, b, head, close, value) == IF cond THEN Push(b, head, close, value) ELSE b

\* A filter without a parameter.
PushText(cond, b, text) ==
    IF cond THEN [b EXCEPT !.filters = Append(@, <<text>>)] ELSE b

\* JavaScript truthiness of an optional string.
Truthy(v) == v # None /\ v # ""

\* searchParams.get(name) of an optional parameter other than tenant_id and
\* customer: present or absent.
Has(sp, name) == name \in sp.opt

\* The tenant_id parameter honoured whatever the caller's role.
AdminTenantScope_AnyRole(b, tenant, sp) ==
    PushIf(Truthy(sp.tenant_id), b, "tenant_id = ", "", sp.tenant_id)

\* `if (tenant.role === 'admin' && searchParams.get('tenant_id'))`
AdminTenantScope(b, tenant, sp) ==
    PushIf(tenant.role = "admin" /\ Truthy(sp.tenant_id), b, "tenant_id = ", "", sp.tenant_id)

\* `if (tenant.role === 'customer' && tenant.customer_name) ... else if (customer)`
CustomerScope(b, tenant, sp) ==
    IF tenant.role = "customer" /\ Truthy(tenant.customer_name)
    THEN Push(b, "customer_name = ", "", tenant.customer_name)
    ELSE IF Truthy(sp.customer)
    THEN Push(b, "customer_name = ", "", sp.customer)
    ELSE b

\* parsePagination / paginationOffset values appended to the data query.
PageParams == <<"pageSize", "offset">>
PageTail(b) == <<"LIMIT ", Dollar[b.paramIdx], " OFFSET ", Dollar[b.paramIdx + 1]>>

\* A count query followed by the page query over the same WHERE clause.
CountAndPage(table, b) ==
    <<Query(table, b.filters, <<>>, b.params, TRUE),
      Query(table, b.filters, PageTail(b), b.params \o PageParams, TRUE)>>

handleUsageSummary(sp, tenant) ==
    IF Has(sp, "invalid_group_by") THEN <<>>
    ELSE
    LET b0 == Builder(tenantFilter(tenant, 1))
        b1 == PushIf(Has(sp, "from"), b0, "dateCol >= ", "::date", "from")
        b2 == PushIf(Has(sp, "to"), b1, "dateCol <= ", "::date", "to")
        b3 == AdminTenantScope(b2, tenant, sp)
        b4 == CustomerScope(b3, tenant, sp)
    IN <<Query("mv_usage", b4.filters, <<>>, b4.params, TRUE),
         Query("mv_usage", b4.filters, <<>>, b4.params, TRUE)>>

handleUsageBreakdown(sp, tenant) ==
    IF Has(sp, "invalid_group_by") THEN <<>>
    ELSE
    LET b0 == Builder(tenantFilter(tenant, 1))
        b1 == PushIf(Has(sp, "from"), b0, "usage_date >= ", "::date", "from")
        b2 == PushIf(Has(sp, "to"), b1, "usage_date <= ", "::date", "to")
        b3 == AdminTenantScope(b2, tenant, sp)
    IN <<Query("rpt_usage", b3.filters, <<"LIMIT ", Dollar[b3.paramIdx]>>,
               Append(b3.params, "limit"), TRUE)>>

handleUsageRecords(sp, tenant) ==
    LET b0 == Builder(tenantFilter(tenant, 1))
        b1 == AdminTenantScope(b0, tenant, sp)
        b2 == CustomerScope(b1, tenant, sp)
        b3 == PushIf(Has(sp, "iccid"), b2, "iccid = ", "", "iccid")
        b4 == PushIf(Has(sp, "from"), b3, "timestamp >= ", "::timestamptz", "from")
        b5 == PushIf(Has(sp, "to"), b4, "timestamp <= ", "::timestamptz", "to")
    IN CountAndPage("rpt_usage", b5)

handleEndpointsList(sp, tenant) ==
    LET b0 == Builder(tenantFilter(tenant, 1))
        b1 == AdminTenantScope(b0, tenant, sp)
        b2 == IF tenant.role = "customer" /\ Truthy(tenant.customer_id)
              THEN Push(b1, "customer_id = ", "", tenant.customer_id)
              ELSE IF Truthy(sp.customer)
              THEN Push(b1, CustomerSubqueryHead, " AND endpoint_name IS NOT NULL)",
                        sp.customer)
              ELSE b1
        b3 == PushIf(Has(sp, "status"), b2, "(LOWER(status) = LOWER(",
                     ") OR LOWER(endpoint_status_name) = LOWER($n))", "status")
        b4 == PushIf(Has(sp, "search"), b3, "(endpoint_name ILIKE ",
                     " OR source_id ILIKE $n OR endpoint_name IN (... iccid ILIKE $n ...))",
                     "%search%")
    IN CountAndPage("rpt_endpoints", b4)

\* `(id::text = $n OR source_id = $n+1)` after the tenant filter.
IdLookup(tf, id) ==
    [filters |-> <<tf.clause,
                   <<"(id::text = ", Dollar[tf.nextIdx],
                     " OR source_id = ", Dollar[tf.nextIdx + 1], ")">>>>,
     params  |-> tf.params \o <<id, id>>]

handleEndpointUsage(sp, tenant) ==
    LET lk     == IdLookup(tenantFilter(tenant, 1), sp.id)
        lookup == Query("rpt_endpoints", lk.filters, <<"LIMIT 1">>, lk.params, FALSE)
        tfUsage == tenantFilter(tenant, 1)
        b0 == [filters  |-> <<tfUsage.clause,
                              <<"endpoint_name = ", Dollar[tfUsage.nextIdx], "">>>>,
               params   |-> Append(tfUsage.params, "endpoint_name"),
               paramIdx |-> tfUsage.nextIdx + 1]
        b1 == AdminTenantScope(b0, tenant, sp)
        b2 == CustomerScope(b1, tenant, sp)
        b3 == PushIf(Has(sp, "from"), b2, "usage_date >= ", "::date", "from")
        b4 == PushIf(Has(sp, "to"), b3, "usage_date <= ", "::date", "to")
    IN IF lookup.rows = {} \/ Has(sp, "invalid_group_by")
       THEN <<lookup>>
       ELSE <<lookup, Query("rpt_usage", b4.filters, <<>>, b4.params, TRUE)>>

\* One endpoint name per customer whose rows the ranking query matched.
EndpointNames(rows) ==
    (IF \E r \in rows : r.customer_name = "custA" THEN <<"ep:custA">> ELSE <<>>)
    \o (IF \E r \in rows : r.customer_name = "custB" THEN <<"ep:custB">> ELSE <<>>)

handleTopEndpoints(sp, tenant) ==
    LET b0  == Builder(tenantFilter(tenant, 1))
        b1  == AdminTenantScope(b0, tenant, sp)
        b2  == CustomerScope(b1, tenant, sp)
        top == Query("rpt_usage", b2.filters, <<"LIMIT ", Dollar[b2.paramIdx]>>,
                     Append(b2.params, "limit"), TRUE)
        endpointNames == EndpointNames(top.rows)
        inPlaceholders ==
            [i \in 1..(2 * Len(endpointNames) + 1) |->
                IF i = 1 THEN "endpoint_name IN ("
                ELSE IF i % 2 = 0 THEN Dollar[b2.paramIdx + (i \div 2) - 1]
                ELSE IF i = 2 * Len(endpointNames) + 1 THEN ")" ELSE ","]
    IN IF top.rows = {}
       THEN <<top>>
       ELSE <<top, Query("rpt_usage", Append(b2.filters, inPlaceholders), <<>>,
                         b2.params \o endpointNames, TRUE)>>

handleBundlesList(sp, tenant) ==
    LET b0 == Builder(tenantFilter(tenant, 1))
        b1 == AdminTenantScope(b0, tenant, sp)
        b2 == PushIf(Has(sp, "status"), b1, "LOWER(status_name) = LOWER(", ")", "status")
    IN CountAndPage("rpt_bundles", b2)

handleBundleDetail(sp, tenant) ==
    LET lk      == IdLookup(tenantFilter(tenant, 1), sp.id)
        bundles == Query("rpt_bundles", lk.filters, <<"LIMIT 1">>, lk.params, TRUE)
        tfInst  == tenantFilter(tenant, 1)
        b0 == [filters  |-> <<tfInst.clause,
                              <<"bundle_moniker = ", Dollar[tfInst.nextIdx], "">>>>,
               params   |-> Append(tfInst.params, "bundle_moniker"),
               paramIdx |-> tfInst.nextIdx + 1]
        b1 == PushIf(tenant.role = "customer" /\ Truthy(tenant.customer_name),
                     b0, "customer_name = ", "", tenant.customer_name)
    IN IF bundles.rows = {}
       THEN <<bundles>>
       ELSE <<bundles,
              Query("rpt_bundle_instances", b1.filters, <<"LIMIT 50">>, b1.params, TRUE)>>

\* searchParams.get('status') of the instances list, lower-cased.
InstanceStatuses == {None, "live", "active", "stalled", "depleted"}

handleInstancesList(sp, tenant) ==
    LET b0 == Builder(tenantFilter(tenant, 1))
        b1 == AdminTenantScope(b0, tenant, sp)
        b2 == CustomerScope(b1, tenant, sp)
        b3 == PushIf(Has(sp, "iccid"), b2, "iccid ILIKE ", "", "%iccid%")
        b4 == PushIf(Has(sp, "bundle_id"), b3, "(bundle_moniker = ",
                     " OR bundle_instance_id = $n)", "bundle_id")
        b5 == PushIf(Has(sp, "expiring_before"), b4, "end_time <= ", "::timestamptz",
                     "expiring_before")
        b6 == PushText(Has(sp, "final_only"), b5,
                 "sequence IS NOT NULL AND sequence_max IS NOT NULL AND sequence = sequence_max")
        b7 == CASE sp.status = None -> b6
                [] sp.status = "live" -> PushText(TRUE, b6, "LOWER(effective_status) = 'live'")
                [] sp.status = "active" ->
                      PushText(TRUE, b6, "LOWER(effective_status) IN ('active', 'live')")
                [] sp.status = "stalled" ->
                      PushText(TRUE, b6,
                          "(sequence IS NOT NULL AND ... NOT EXISTS (SELECT 1 FROM instances nxt ...))")
                [] OTHER -> Push(b6, "(LOWER(effective_status) = LOWER(", "))", sp.status)
    IN CountAndPage("rpt_bundle_instances", b7)

ExportTypes == {"usage", "bundles", "instances", "endpoints"}

ExportTable(report_type) ==
    CASE report_type = "usage" -> "rpt_usage"
      [] report_type = "bundles" -> "rpt_bundles"
      [] report_type = "instances" -> "rpt_bundle_instances"
      [] OTHER -> "rpt_endpoints"

handleExport(sp, tenant) ==
    IF sp.report_type \notin ExportTypes \/ Has(sp, "invalid_format") THEN <<>>
    ELSE
    LET b0 == Builder(tenantFilter(tenant, 1))
        b1 == PushIf(tenant.role = "customer" /\ Truthy(tenant.customer_name),
                     b0, "customer_name = ", "", tenant.customer_name)
        b2 == PushIf(Has(sp, "from") /\ sp.report_type = "usage",
                     b1, "timestamp >= ", "::timestamptz", "from")
        b3 == PushIf(Has(sp, "to") /\ sp.report_type = "usage",
                     b2, "timestamp <= ", "::timestamptz", "to")
        b4 == PushIf(Has(sp, "iccid") /\ sp.report_type \in {"usage", "instances"},
                     b3, "iccid = ", "", "iccid")
    IN <<Query(ExportTable(sp.report_type), b4.filters, <<>>, b4.params, TRUE)>>

handleFilterTenants(sp, tenant) ==
    IF tenant.role = "admin"
    THEN <<Query("rpt_tenants", <<>>, <<>>, <<>>, TRUE)>>
    ELSE <<Query("rpt_tenants",
                 <<<<"tenant_id = ", "$1", " OR parent_tenant_id = ", "$1">>>>,
                 <<>>, <<tenant.tenant_id>>, TRUE)>>

\* The tenant subquery as the handlers that do not call tenantFilter spell it.
PushTenantSubquery(b, tenant) ==
    [filters  |-> Append(b.filters, <<TenantSubqueryHead, Dollar[b.paramIdx],
                                      TenantSubqueryMid, Dollar[b.paramIdx], ")">>),
     params   |-> Append(b.params, tenant.tenant_id),
     paramIdx |-> b.paramIdx + 1]

handleFilterCustomers(sp, tenant) ==
    LET b0 == [filters  |-> <<<<"customer_name IS NOT NULL">>, <<"customer_name != ''">>>>,
               params   |-> <<>>,
               paramIdx |-> 1]
        b1 == IF tenant.role = "admin"
              THEN PushIf(Truthy(sp.tenant_id), b0, "tenant_id = ", "", sp.tenant_id)
              ELSE PushTenantSubquery(b0, tenant)
    IN <<Query("rpt_bundle_instances", b1.filters, <<>>, b1.params, TRUE)>>

\* The months parameter of generate_series, pushed after the filters.
MonthsTail(b) == <<"NOW() - (", Dollar[b.paramIdx], " || ' months')::interval">>

RevenueQuery(sp, tenant) ==
    LET b0 == Builder(tenantFilter(tenant, 1))
        b1 == AdminTenantScope(b0, tenant, sp)
        b2 == CustomerScope(b1, tenant, sp)
    IN Query("rpt_bundle_instances", b2.filters, MonthsTail(b2),
             Append(b2.params, "months"), TRUE)

handleRevenueMonthly(sp, tenant) ==
    IF Has(sp, "invalid_view") THEN <<>>
    ELSE <<RevenueQuery(sp, tenant),
           Query("rpt_tenants", <<>>, <<>>, <<>>, FALSE)>>

handleRevenueCostChart(sp, tenant) ==
    LET u0 == [filters |-> <<>>, params |-> <<>>, paramIdx |-> 1]
        u1 == IF tenant.role # "admin" THEN PushTenantSubquery(u0, tenant) ELSE u0
        u2 == AdminTenantScope(u1, tenant, sp)
        u3 == CustomerScope(u2, tenant, sp)
        monthsFilter == <<"usage_date >= date_trunc('month', NOW() - (",
                          Dollar[u3.paramIdx], " || ' months')::interval)">>
    IN <<RevenueQuery(sp, tenant),
         Query("rpt_usage", <<monthsFilter>> \o u3.filters, <<>>,
               Append(u3.params, "months"), TRUE)>>

HandlerQueries(h, sp, tenant) ==
    CASE h = "handleUsageSummary" -> handleUsageSummary(sp, tenant)
      [] h = "handleUsageBreakdown" -> handleUsageBreakdown(sp, tenant)
      [] h = "handleUsageRecords" -> handleUsageRecords(sp, tenant)
      [] h = "handleEndpointsList" -> handleEndpointsList(sp, tenant)
      [] h = "handleEndpointUsage" -> handleEndpointUsage(sp, tenant)
      [] h = "handleTopEndpoints" -> handleTopEndpoints(sp, tenant)
      [] h = "handleBundlesList" -> handleBundlesList(sp, tenant)
      [] h = "handleBundleDetail" -> handleBundleDetail(sp, tenant)
      [] h = "handleInstancesList" -> handleInstancesList(sp, tenant)
      [] h = "handleExport" -> handleExport(sp, tenant)
      [] h = "handleFilterTenants" -> handleFilterTenants(sp, tenant)
      [] h = "handleFilterCustomers" -> handleFilterCustomers(sp, tenant)
      [] h = "handleRevenueMonthly" -> handleRevenueMonthly(sp, tenant)
      [] OTHER -> handleRevenueCostChart(sp, tenant)

\* The identities requests arrive with: an admin, tenants at each level of the
\* hierarchy, customers authenticated by JWT (no customer_id) and a customer
\* whose service-token mapping carries a customer_id.
HandlerIdentities ==
    {TenantInfo(AdminTenant, "admin", None, "jwt")}
    \cup {TenantInfo(t, "tenant", None, "jwt") : t \in {"T1", "T2", "T4"}}
    \cup {TenantInfo(t, "customer", c, "jwt") : t \in {"T1", "T2"}, c \in Customers}
    \cup {[TenantInfo("T1", "customer", "custA", "service_token")
              EXCEPT !.customer_id = "idA"]}

\* T2 is a child of T1, T3 a child of T2 or of T1, T4 stands alone.
HandlerHierarchies ==
    {[t \in Tenants |-> CASE t = "T2" -> "T1" [] t = "T3" -> p [] OTHER -> NULL] :
        p \in {"T1", "T2"}}

TenantParam == {None, "T3"}
CustomerParam == {None, "custA", "custB"}

SearchParams(tenantIds, customers, opts, statuses, ids, types) ==
    {[tenant_id |-> a, customer |-> c, opt |-> o, status |-> st, id |-> i,
      report_type |-> ty] :
        a \in tenantIds, c \in customers, o \in SUBSET opts, st \in statuses,
        i \in ids, ty \in types}

InitHandlers ==
    /\ rpt_tenants \in HandlerHierarchies
    /\ FilterIdle
    /\ HandlersIdle
    /\ AuthIdle
    /\ GuardIdle
    /\ EdgeIdle

\* The query parameters each handler reads from the request.
HandlerParams ==
    ("handleUsageSummary" :>
        SearchParams(TenantParam, CustomerParam, {"from", "to", "invalid_group_by"},
                     {None}, {None}, {None}))
    @@ ("handleUsageBreakdown" :>
        SearchParams(TenantParam, CustomerParam, {"from", "to", "invalid_group_by"},
                     {None}, {None}, {None}))
    @@ ("handleUsageRecords" :>
        SearchParams(TenantParam, CustomerParam, {"iccid", "from", "to"},
                     {None}, {None}, {None}))
    @@ ("handleEndpointsList" :>
        SearchParams(TenantParam, CustomerParam, {"status", "search"},
                     {None}, {None}, {None}))
    @@ ("handleEndpointUsage" :>
        SearchParams(TenantParam, CustomerParam, {"from", "to", "invalid_group_by"},
                     {None}, {"id", NoMatch}, {None}))
    @@ ("handleTopEndpoints" :>
        SearchParams(TenantParam, CustomerParam, {}, {None}, {None}, {None}))
    @@ ("handleBundlesList" :>
        SearchParams(TenantParam, CustomerParam, {"status"}, {None}, {None}, {None}))
    @@ ("handleBundleDetail" :>
        SearchParams({None}, {None}, {}, {None}, {"id", NoMatch}, {None}))
    @@ ("handleInstancesList" :>
        SearchParams(TenantParam, CustomerParam,
                     {"iccid", "bundle_id", "expiring_before", "final_only"},
                     InstanceStatuses, {None}, {None}))
    @@ ("handleExport" :>
        SearchParams({None}, {None}, {"from", "to", "iccid", "invalid_format"},
                     {None}, {None}, ExportTypes \cup {"invalid"}))
    @@ ("handleFilterTenants" :>
        SearchParams({None}, {None}, {}, {None}, {None}, {None}))
    @@ ("handleFilterCustomers" :>
        SearchParams(TenantParam, CustomerParam, {}, {None}, {None}, {None}))
    @@ ("handleRevenueMonthly" :>
        SearchParams(TenantParam, CustomerParam, {"invalid_view"},
                     {None}, {None}, {None}))
    @@ ("handleRevenueCostChart" :>
        SearchParams(TenantParam, CustomerParam, {}, {None}, {None}, {None}))

\* routeRequest hands the request to handler h, which builds and runs its
\* queries and returns.
Serve(h) ==
    /\ hHandler = None
    /\ \E tenant \in HandlerIdentities, sp \in HandlerParams[h] :
        /\ hTenant' = tenant
        /\ hHandler' = h
        /\ hParams' = sp
        /\ hQueries' = HandlerQueries(h, sp, tenant)
    /\ UNCHANGED <<rpt_tenants, edgeVars, filterVars, authVars, guardVars>>

UsageSummary == Serve("handleUsageSummary")
UsageBreakdown == Serve("handleUsageBreakdown")
UsageRecords == Serve("handleUsageRecords")
EndpointsList == Serve("handleEndpointsList")
EndpointUsage == Serve("handleEndpointUsage")
TopEndpoints == Serve("handleTopEndpoints")
BundlesList == Serve("handleBundlesList")
BundleDetail == Serve("handleBundleDetail")
InstancesList == Serve("handleInstancesList")
Export == Serve("handleExport")
FilterTenants == Serve("handleFilterTenants")
FilterCustomers == Serve("handleFilterCustomers")
RevenueMonthly == Serve("handleRevenueMonthly")
RevenueCostChart == Serve("handleRevenueCostChart")

\* The response is sent; the worker waits for the next request.
Respond ==
    /\ hHandler # None
    /\ hTenant' = NoTenant
    /\ hHandler' = None
    /\ hParams' = None
    /\ hQueries' = <<>>
    /\ UNCHANGED <<rpt_tenants, edgeVars, filterVars, authVars, guardVars>>

NextHandlers ==
    \/ UsageSummary
    \/ UsageBreakdown
    \/ UsageRecords
    \/ EndpointsList
    \/ EndpointUsage
    \/ TopEndpoints
    \/ BundlesList
    \/ BundleDetail
    \/ InstancesList
    \/ Export
    \/ FilterTenants
    \/ FilterCustomers
    \/ RevenueMonthly
    \/ RevenueCostChart
    \/ Respond

SpecHandlers == InitHandlers /\ [][NextHandlers]_vars

\* The tables and views that hold tenant-owned reporting data.
ReportingTables ==
    {"mv_usage", "rpt_usage", "rpt_bundles", "rpt_bundle_instances", "rpt_endpoints"}

\* The queries whose rows the isolation claims are about: those over reporting
\* data and those whose rows go into the response.
Scoped(q) == q.table \in ReportingTables \/ q.returned

C26_TextAndParametersAligned ==
    \A k \in 1..Len(hQueries) :
        LET q == hQueries[k] IN
        /\ Referenced(Flatten(q.filters) \o q.tail) = 1..Len(q.params)
        /\ \A i, j \in 1..Len(q.filters) :
              i # j => Referenced(q.filters[i]) \cap Referenced(q.filters[j]) = {}
        /\ \A i \in 1..Len(q.filters) :
              LET f == q.filters[i] IN
              /\ f[1] = TenantSubqueryHead => Arg(f[2], q.params) = hTenant.tenant_id
              /\ f[1] = "customer_name = " =>
                    Arg(f[2], q.params) \in {hTenant.customer_name, hParams.customer}
              /\ (f[1] = "tenant_id = " /\ hTenant.role = "admin") =>
                    Arg(f[2], q.params) = hParams.tenant_id
        /\ \A a \in Referenced(q.tail), b \in Referenced(Flatten(q.filters)) : a > b

\* A customer listed bundle instances with iccid, bundle_id and a status:
\* five filters before LIMIT $6 OFFSET $7, seven parameters.
C26_Witness ==
    /\ hHandler = "handleInstancesList"
    /\ hTenant.role = "customer"
    /\ Len(hQueries) = 2
    /\ Len(hQueries[2].params) = 7
    /\ hQueries[2].tail = <<"LIMIT ", "$6", " OFFSET ", "$7">>

\* The handlers the customer restriction is stated for.
CustomerDataHandlers ==
    {"handleUsageSummary", "handleUsageBreakdown", "handleUsageRecords",
     "handleEndpointsList", "handleEndpointUsage", "handleTopEndpoints",
     "handleInstancesList", "handleFilterCustomers", "handleExport"}

\* C3: for a customer identity every data-access handler returns only rows of
\* the customer named in the identity, and a caller-supplied customer
\* parameter changes nothing.
C3_CustomerQueriesScoped ==
    (hTenant.role = "customer" /\ hHandler \in CustomerDataHandlers) =>
        /\ \A i \in 1..Len(hQueries) :
              hQueries[i].returned =>
                  \A r \in hQueries[i].rows : r.customer_name = hTenant.customer_name
        /\ hQueries = HandlerQueries(hHandler, [hParams EXCEPT !.customer = None], hTenant)

\* -------------------------------------------------------------- SpecAuth

SessionKey(tokenHash) == <<"session:", tokenHash>>

\* authenticateJWT with the Session Store lookup left out.
authenticateJWT_NoSessionCheck(token) ==
    LET payload == verifyJWT(token) IN
    IF payload = NoToken THEN NoTenant
    ELSE TenantInfo(payload.tenant_id, payload.role, payload.customer_name, "jwt")

authenticateJWT(token) ==
    LET payload == verifyJWT(token) IN
    IF payload = NoToken THEN NoTenant
    ELSE IF ~KVGet(SessionKey(hashTokenId(payload.jti))) THEN NoTenant
    ELSE TenantInfo(payload.tenant_id, payload.role, payload.customer_name, "jwt")

ServiceTokenIdentity(req) ==
    LET tenantInfo == ServiceTokenInfo(req.client_id) IN
    IF tenantInfo.tenant_id # None
    THEN [tenantInfo EXCEPT !.customer_id = @] @@ [auth_method |-> "service_token"]
    ELSE NoTenant

DevIdentity(req) == TenantInfo(req.x_tenant_id, "tenant", None, "service_token")

\* authenticateTenant trying the next credential when a Bearer token or a
\* client id fails.
authenticateTenant_FallThrough(req) ==
    IF req.scheme = "Bearer" /\ authenticateJWT(req.token) # NoTenant
    THEN authenticateJWT(req.token)
    ELSE IF Truthy(req.client_id) /\ ServiceTokenIdentity(req) # NoTenant
    THEN ServiceTokenIdentity(req)
    ELSE IF Truthy(req.x_tenant_id) THEN DevIdentity(req)
    ELSE NoTenant

\* NoTenant stands for null.
authenticateTenant(req) ==
    IF req.scheme = "Bearer" THEN authenticateJWT(req.token)
    ELSE IF Truthy(req.client_id) THEN ServiceTokenIdentity(req)
    ELSE IF Truthy(req.x_tenant_id) THEN DevIdentity(req)
    ELSE NoTenant

\* The tokens handleVerifyOTP has returned to a client.
Delivered == {login[p].token : p \in {q \in Logins : login[q].pc = "done"}}

\* What a client can put after "Bearer ": a token it was given, a copy of one
\* with the payload altered (the signature no longer verifies), or text that is
\* not a JWT.
Presentable ==
    Delivered
    \cup {[t EXCEPT !.sig = "bad", !.exp = MaxNow + SessionTtl, !.role = "admin"] :
             t \in Delivered}
    \cup {[NoToken EXCEPT !.sig = "malformed"]}

Requests ==
    {[scheme |-> sc, token |-> IF sc = "Bearer" THEN t ELSE NoToken,
      client_id |-> c, x_tenant_id |-> x] :
        sc \in {None, "Basic", "Bearer"}, t \in Presentable,
        c \in {None, "", KnownClientId, UnknownClientId},
        x \in {None, "T2"}}

InitAuth ==
    /\ rpt_tenants = [t \in Tenants |-> IF t = "T2" THEN "T1" ELSE NULL]
    /\ FilterIdle
    /\ HandlersIdle
    /\ AuthIdle
    /\ GuardIdle
    /\ EdgeIdle

Tick ==
    /\ aPc = "idle"
    /\ now < MaxNow
    /\ now' = now + 1
    /\ UNCHANGED <<kv, auth_sessions, login, revoked, aPc, aReq, aOut, invalidated>>

\* handleVerifyOTP, the code accepted, up to the INSERT INTO auth_sessions.
VerifyOTPInsertSession(p, u) ==
    /\ aPc = "idle"
    /\ login[p].pc = "start"
    /\ LET token == createJWT(u, p) IN
        /\ login' = [login EXCEPT ![p] = [pc |-> "inserted", token |-> token]]
        /\ auth_sessions' = auth_sessions \cup
              {[id |-> p, user_id |-> u, token_hash |-> hashTokenId(token.jti)]}
    /\ UNCHANGED <<now, kv, revoked, aPc, aReq, aOut, invalidated>>

\* handleVerifyOTP from TENANT_KV.put to the response that carries the token.
VerifyOTPPutMarker(p) ==
    /\ aPc = "idle"
    /\ login[p].pc = "inserted"
    /\ kv' = KVPut(SessionKey(hashTokenId(login[p].token.jti)), SessionTtl)
    /\ login' = [login EXCEPT ![p].pc = "done"]
    /\ UNCHANGED <<now, auth_sessions, revoked, aPc, aReq, aOut, invalidated>>

BearerRequest(token) ==
    [scheme |-> "Bearer", token |-> token, client_id |-> None, x_tenant_id |-> None]

\* POST /auth/logout: the request authenticates, then handleLogout runs.
Logout(token) ==
    /\ aPc = "idle"
    /\ authenticateTenant(BearerRequest(token)).auth_method = "jwt"
    /\ LET payload == verifyJWT(token)
           tokenHash == hashTokenId(payload.jti) IN
        /\ payload # NoToken
        /\ kv' = KVDelete(SessionKey(tokenHash))
        /\ auth_sessions' = {r \in auth_sessions : r.token_hash # tokenHash}
        /\ revoked' = revoked \cup {tokenHash}
    /\ UNCHANGED <<now, login, aPc, aReq, aOut, invalidated>>

\* DELETE /admin/sessions/:id by an admin, for a session that exists.
RevokeSession(sessionId) ==
    /\ aPc = "idle"
    /\ \E session \in auth_sessions :
        /\ session.id = sessionId
        /\ kv' = KVDelete(SessionKey(session.token_hash))
        /\ auth_sessions' = {r \in auth_sessions : r.id # sessionId}
        /\ revoked' = revoked \cup {session.token_hash}
    /\ UNCHANGED <<now, login, aPc, aReq, aOut, invalidated>>

\* handleResetPassword step 7, and the same lines of handleAdminResetPassword
\* and handleDeleteUser: the markers of the user's session rows are deleted,
\* then the rows.
InvalidateUserSessions(userId) ==
    /\ aPc = "idle"
    /\ LET sessions == {r \in auth_sessions : r.user_id = userId} IN
        /\ kv' = {m \in kv : \A r \in sessions : m.key # SessionKey(r.token_hash)}
        /\ auth_sessions' = auth_sessions \ sessions
        /\ invalidated' = invalidated \cup {r.token_hash : r \in sessions}
    /\ UNCHANGED <<now, login, revoked, aPc, aReq, aOut>>

\* The path authenticateTenant takes for req awaits TENANT_KV.get: the session
\* marker of a token that verified, or the record of a client id.
ReadsKV(req) ==
    IF req.scheme = "Bearer" THEN verifyJWT(req.token) # NoToken
    ELSE Truthy(req.client_id)

\* A request arrives and authenticateTenant resolves its credentials. The
\* store may fail a read; the awaits on it are in no try block, so the
\* rejection leaves authenticateTenant as an exception.
Authenticate(req) ==
    /\ aPc = "idle"
    /\ aReq' = req
    /\ \/ /\ aPc' = "resolved"
          /\ aOut' = authenticateTenant(req)
       \/ /\ ReadsKV(req)
          /\ aPc' = "threw"
          /\ aOut' = NoTenant
    /\ UNCHANGED <<now, kv, auth_sessions, login, revoked, invalidated>>

\* The request is over; nothing of it is kept.
Forget ==
    /\ aPc \in {"resolved", "threw"}
    /\ aPc' = "idle"
    /\ aReq' = [scheme |-> None, token |-> NoToken, client_id |-> None, x_tenant_id |-> None]
    /\ aOut' = NoTenant
    /\ UNCHANGED <<now, kv, auth_sessions, login, revoked, invalidated>>

NextAuth ==
    \/ Tick /\ UNCHANGED <<rpt_tenants, edgeVars, filterVars, handlerVars, guardVars>>
    \/ \E p \in Logins, u \in AuthUsers :
          VerifyOTPInsertSession(p, u) /\ UNCHANGED <<rpt_tenants, edgeVars, filterVars, handlerVars, guardVars>>
    \/ \E p \in Logins :
          VerifyOTPPutMarker(p) /\ UNCHANGED <<rpt_tenants, edgeVars, filterVars, handlerVars, guardVars>>
    \/ \E t \in Delivered :
          Logout(t) /\ UNCHANGED <<rpt_tenants, edgeVars, filterVars, handlerVars, guardVars>>
    \/ \E sid \in Logins :
          RevokeSession(sid) /\ UNCHANGED <<rpt_tenants, edgeVars, filterVars, handlerVars, guardVars>>
    \/ \E req \in Requests :
          Authenticate(req) /\ UNCHANGED <<rpt_tenants, edgeVars, filterVars, handlerVars, guardVars>>
    \/ Forget /\ UNCHANGED <<rpt_tenants, edgeVars, filterVars, handlerVars, guardVars>>

SpecAuth == InitAuth /\ [][NextAuth]_vars

\* The Session Store holds an unexpired marker under the hash of jti.
MarkerHeld(jti) ==
    \E m \in kv : m.key = <<"session:", hashTokenId(jti)>> /\ now < m.expiresAt

\* C5: authenticateTenant returns an identity for a Bearer token only if the
\* token's signature verifies, the token is not expired and the Session Store
\* holds a marker under the hash of its jti; a validly signed, unexpired token
\* whose marker is absent resolves to null.
C5_BearerNeedsSignatureExpiryMarker ==
    (aPc = "resolved" /\ aReq.scheme = "Bearer") =>
        /\ aOut # NoTenant =>
              /\ aReq.token.sig = "good"
              /\ aReq.token.exp >= now
              /\ MarkerHeld(aReq.token.jti)
        /\ (aReq.token.sig = "good" /\ aReq.token.exp >= now
              /\ ~MarkerHeld(aReq.token.jti)) => aOut = NoTenant

\* A token presented in the very second it expires, its marker still held, has
\* resolved to the identity of its claims.
C5_Witness ==
    /\ aPc = "resolved"
    /\ aReq.scheme = "Bearer"
    /\ aReq.token.exp = now
    /\ aOut = TenantInfo("T2", "customer", "custA", "jwt")

\* C6: once handleLogout or handleRevokeSession has completed for a session,
\* no operation recreates the marker of its jti and every later
\* authenticateTenant call presenting the session's token returns null.
C6_RevokedStaysRevoked ==
    /\ \A h \in revoked : \A m \in kv : m.key # <<"session:", h>>
    /\ (aPc = "resolved" /\ aReq.scheme = "Bearer"
          /\ hashTokenId(aReq.token.jti) \in revoked) => aOut = NoTenant

\* Logins, password resets and user deletions side by side, and the requests
\* that present the tokens the logins returned.
NextReset ==
    \/ Tick /\ UNCHANGED <<rpt_tenants, edgeVars, filterVars, handlerVars, guardVars>>
    \/ \E p \in Logins, u \in AuthUsers :
          VerifyOTPInsertSession(p, u) /\ UNCHANGED <<rpt_tenants, edgeVars, filterVars, handlerVars, guardVars>>
    \/ \E p \in Logins :
          VerifyOTPPutMarker(p) /\ UNCHANGED <<rpt_tenants, edgeVars, filterVars, handlerVars, guardVars>>
    \/ \E userId \in AuthUsers :
          InvalidateUserSessions(userId) /\ UNCHANGED <<rpt_tenants, edgeVars, filterVars, handlerVars, guardVars>>
    \/ \E t \in Delivered :
          Authenticate(BearerRequest(t)) /\ UNCHANGED <<rpt_tenants, edgeVars, filterVars, handlerVars, guardVars>>
    \/ Forget /\ UNCHANGED <<rpt_tenants, edgeVars, filterVars, handlerVars, guardVars>>

SpecReset == InitAuth /\ [][NextReset]_vars

\* C27: once handleResetPassword, handleAdminResetPassword or handleDeleteUser
\* has completed for a user, no marker is held for a session the user had by
\* then, whatever a concurrent handleVerifyOTP does after, and every later
\* authenticateTenant call presenting such a session's token returns null.
C27_ResetEndsEverySession ==
    /\ \A h \in invalidated : \A m \in kv : m.key # SessionKey(h)
    /\ (aPc = "resolved" /\ aReq.scheme = "Bearer"
          /\ hashTokenId(aReq.token.jti) \in invalidated) => aOut = NoTenant

\* C7: authenticateTenant decides on the first credential present in the order
\* Bearer token, CF-Access-Client-Id, X-Tenant-Id; a Bearer token that fails or
\* a client id unknown to the Session Store resolves to null whatever lower
\* credential the request carries.
C7_FixedPriorityNoFallThrough ==
    aPc = "resolved" =>
        CASE aReq.scheme = "Bearer" ->
                \/ aOut = NoTenant
                \/ /\ aReq.token.sig = "good"
                   /\ aOut = TenantInfo(aReq.token.tenant_id, aReq.token.role,
                                        aReq.token.customer_name, "jwt")
          [] aReq.scheme # "Bearer" /\ aReq.client_id = KnownClientId ->
                aOut = TenantInfo("T1", "tenant", None, "service_token")
          [] aReq.scheme # "Bearer" /\ aReq.client_id = UnknownClientId ->
                aOut = NoTenant
          [] aReq.scheme # "Bearer" /\ aReq.client_id \in {None, ""}
                /\ aReq.x_tenant_id # None ->
                aOut = TenantInfo(aReq.x_tenant_id, "tenant", None, "service_token")
          [] OTHER -> aOut = NoTenant

\* A request with a forged Bearer token, a known client id and a development
\* tenant header has resolved to null.
C7_Witness ==
    /\ aPc = "resolved"
    /\ aReq.scheme = "Bearer"
    /\ aReq.token.sig = "bad"
    /\ aReq.client_id = KnownClientId
    /\ aReq.x_tenant_id = "T2"
    /\ aOut = NoTenant

\* C18: Env carries no development flag, so every deployment is one without
\* it: a request whose only credential is an X-Tenant-Id header resolves to
\* null.
C18_DevHeaderAloneResolvesToNull ==
    (aPc = "resolved" /\ aReq.scheme = None /\ ~Truthy(aReq.client_id)
        /\ Truthy(aReq.x_tenant_id)) => aOut = NoTenant

\* C19: authenticateTenant never ends in an exception: a failed read of the
\* Session Store or a token that does not parse makes it return null.
C19_AuthenticateTenantNeverThrows ==
    /\ aPc # "threw"
    /\ (aPc = "resolved" /\ aReq.scheme = "Bearer" /\ aReq.token.sig = "malformed")
          => aOut = NoTenant

\* ------------------------------------------------------------- SpecGuard

\* tenant_id values that have a row in rpt_tenants.
GuardTenantIds == {<<"T1">>, <<"T2">>}
\* customer_name values an admin may type: custA and O'Brien.
CustomerNames == {<<"custA">>, <<"O", Quote, "Brien">>}
\* Values a client may send as X-Tenant-Id: T2, a''b,
\* x'; SET LOCAL app.current_tenant = '* and x'; SET app.current_customer = 'custB
DevHeaderValues ==
    {<<"T2">>, <<"a", Quote, Quote, "b">>,
     <<"x", Quote, ";", SetTenantHead, Quote, "*">>,
     <<"x", Quote, ";", SetSessionCustomerHead, Quote, "custB">>}
\* A field the request body does not carry.
Undefined == <<"(undefined)">>

MaxWrites == 1

\* POST /admin/users: role and tenant validated, customer_name required for a
\* customer and stored only for a customer.
handleCreateUser(u, role, tenant_id, customer_name) ==
    /\ auth_users[u] = NoUser
    /\ role \in Roles
    /\ ~(role = "customer" /\ customer_name = <<>>)
    /\ tenant_id \in GuardTenantIds
    /\ auth_users' = [auth_users EXCEPT ![u] =
          [role |-> role, tenant_id |-> tenant_id,
           customer_name |-> IF role = "customer" THEN customer_name ELSE <<>>]]

\* PUT /admin/users/:id: each field the body carries is written.
handleUpdateUser(u, role, customer_name) ==
    /\ auth_users[u] # NoUser
    /\ role # None \/ customer_name # Undefined
    /\ role \in Roles \cup {None}
    /\ auth_users' = [auth_users EXCEPT ![u] =
          [role |-> IF role # None THEN role ELSE @.role,
           tenant_id |-> @.tenant_id,
           customer_name |-> IF customer_name # Undefined THEN customer_name
                             ELSE @.customer_name]]

\* What authenticateJWT returns for a session of user u.
JwtIdentity(u) ==
    [tenant_id |-> auth_users[u].tenant_id, role |-> auth_users[u].role,
     customer_name |-> auth_users[u].customer_name, customer_id |-> <<>>,
     auth_method |-> "jwt"]

\* What authenticateTenant returns for an X-Tenant-Id header.
DevHeaderIdentity(h) ==
    [tenant_id |-> h, role |-> "tenant", customer_name |-> <<>>, customer_id |-> <<>>,
     auth_method |-> "service_token"]

\* sql.begin with the callback's promise rejected committing all the same.
TransactionEnd_AlwaysCommit(writes, rejected) == committed \cup writes

\* sql.begin: COMMIT when the callback's promise resolves, ROLLBACK when it
\* rejects.
TransactionEnd(writes, rejected) ==
    IF rejected THEN committed ELSE committed \cup writes

\* COMMIT keeps what the transaction wrote at session level on its connection;
\* ROLLBACK drops it. SET LOCAL values end with the transaction either way.
SessionEnd(c, pending, rejected) ==
    IF rejected THEN pool
    ELSE [pool EXCEPT ![c] =
            [current_tenant |-> IF pending.current_tenant # Unset
                                THEN pending.current_tenant ELSE @.current_tenant,
             current_customer |-> IF pending.current_customer # Unset
                                  THEN pending.current_customer ELSE @.current_customer]]

AllIdle == \A r \in Slots : requests[r].pc = "idle"

\* The request has created its client and has not yet ended it.
ClientOpen(r) ==
    requests[r].pc \in {"begin", "tenant_set", "callback", "committed", "rolled_back",
                        "public", "public_done"}

\* One client shared by every request: any connection, held or not.
createDbClient_Shared == Conns

\* postgres(connectionString, {max: 1}): a client of its own for the request;
\* the pool hands it a connection no other open client holds.
createDbClient == Conns \ {requests[o].conn : o \in {q \in Slots : ClientOpen(q)}}

CreateUser ==
    /\ AllIdle
    /\ \E role \in Roles, t \in {<<"T2">>}, c \in CustomerNames \cup {<<>>} :
          handleCreateUser("u1", role, t, c)
    /\ UNCHANGED <<requests, committed, pool>>

UpdateUser ==
    /\ AllIdle
    /\ \E role \in Roles \cup {None}, c \in CustomerNames \cup {<<>>, Undefined} :
          handleUpdateUser("u1", role, c)
    /\ UNCHANGED <<requests, committed, pool>>

\* sql.begin on the request's own client: the transaction starts with the
\* session-level settings of the connection it runs on.
Begin(q, tenant, c) ==
    [q EXCEPT !.pc = "begin", !.tenant = tenant, !.conn = c, !.settings = pool[c]]

\* fetch: a POST to a public auth path gets a client and no transaction;
\* otherwise authenticateTenant; 401 without an identity, else createDbClient
\* and sql.begin.
Fetch(r) ==
    /\ requests[r].pc = "idle"
    /\ \/ \E c \in createDbClient :
            requests' = [requests EXCEPT ![r].pc = "public", ![r].conn = c]
       \/ requests' = [requests EXCEPT ![r].pc = "closed", ![r].outcome = "401"]
       \/ \E u \in UserIds, c \in createDbClient :
            /\ auth_users[u] # NoUser
            /\ requests' = [requests EXCEPT ![r] = Begin(@, JwtIdentity(u), c)]
       \/ \E h \in DevHeaderValues, c \in createDbClient :
            requests' = [requests EXCEPT ![r] = Begin(@, DevHeaderIdentity(h), c)]
    /\ UNCHANGED <<auth_users, committed, pool>>

\* A statement of the transaction failed: ROLLBACK, and the error reaches fetch.
Rejected(q, why) ==
    [q EXCEPT !.pc = "rolled_back", !.settings = NoSettings, !.pending = NoSettings,
              !.cbResult = why, !.outcome = "error"]

\* The text of the first statement of withTenantContext: the template with
\* tenantValue pasted between the quotes.
TenantStatement(tenant) ==
    LET tenantValue == IF tenant.role = "admin" THEN Wildcard ELSE tenant.tenant_id
    IN SetLocalText(SetTenantHead, tenantValue)

\* The text of the second statement, sent for a customer with a customer_name.
CustomerStatement(tenant) == SetLocalText(SetCustomerHead, tenant.customer_name)

SetTenant(r) ==
    LET q == requests[r]
        run == RunStatements(TenantStatement(q.tenant),
                             [settings |-> q.settings, pending |-> q.pending])
    IN /\ q.pc = "begin"
       /\ requests' = [requests EXCEPT ![r] =
             IF run.ok THEN [q EXCEPT !.pc = "tenant_set", !.settings = run.settings,
                                      !.pending = run.pending]
             ELSE Rejected(q, "context_failed")]
       /\ committed' = TransactionEnd(q.writes, ~run.ok)
       /\ UNCHANGED <<auth_users, pool>>

SetCustomer(r) ==
    LET q == requests[r]
        run == RunStatements(CustomerStatement(q.tenant),
                             [settings |-> q.settings, pending |-> q.pending])
    IN /\ q.pc = "tenant_set"
       /\ IF q.tenant.role = "customer" /\ q.tenant.customer_name # <<>>
          THEN /\ requests' = [requests EXCEPT ![r] =
                     IF run.ok
                     THEN [q EXCEPT !.pc = "callback", !.settings = run.settings,
                                    !.pending = run.pending,
                                    !.atCallback = run.settings]
                     ELSE Rejected(q, "context_failed")]
               /\ committed' = TransactionEnd(q.writes, ~run.ok)
          ELSE /\ requests' = [requests EXCEPT ![r].pc = "callback",
                                               ![r].atCallback = q.settings]
               /\ UNCHANGED committed
       /\ UNCHANGED <<auth_users, pool>>

\* The callback issues a write on the transaction.
CallbackWrite(r) ==
    /\ requests[r].pc = "callback"
    /\ Cardinality(requests[r].writes) < MaxWrites
    /\ requests' = [requests EXCEPT ![r].writes =
                       @ \cup {<<r, Cardinality(@) + 1>>}]
    /\ UNCHANGED <<auth_users, committed, pool>>

\* The callback reads: it sees committed writes and its own.
CallbackRead(r) ==
    /\ requests[r].pc = "callback"
    /\ requests' = [requests EXCEPT ![r].seen = @ \cup committed \cup requests[r].writes]
    /\ UNCHANGED <<auth_users, committed, pool>>

CallbackReturn(r) ==
    /\ requests[r].pc = "callback"
    /\ \E response \in {"200"} :
          requests' = [requests EXCEPT ![r].pc = "committed", ![r].settings = NoSettings,
                                       ![r].pending = NoSettings,
                                       ![r].cbResult = response, ![r].outcome = response]
    /\ committed' = TransactionEnd(requests[r].writes, FALSE)
    /\ pool' = SessionEnd(requests[r].conn, requests[r].pending, FALSE)
    /\ UNCHANGED auth_users

CallbackThrow(r) ==
    /\ requests[r].pc = "callback"
    /\ requests' = [requests EXCEPT ![r] = Rejected(@, "throw")]
    /\ committed' = TransactionEnd(requests[r].writes, TRUE)
    /\ pool' = SessionEnd(requests[r].conn, requests[r].pending, TRUE)
    /\ UNCHANGED auth_users

\* routePublicAuth returns its handler's response, or throws and fetch answers
\* 500.
PublicAuth(r) ==
    /\ requests[r].pc = "public"
    /\ \E response \in {"200", "500"} :
          requests' = [requests EXCEPT ![r].pc = "public_done", ![r].outcome = response]
    /\ UNCHANGED <<auth_users, committed, pool>>

\* sql.end() after the try block only: skipped when the handler threw.
End_OnlyOnSuccess(r) ==
    /\ requests[r].pc \in {"committed", "public_done"}
    /\ requests[r].outcome # "500"
    /\ requests' = [requests EXCEPT ![r].pc = "closed"]
    /\ \/ pool' = pool
       \/ pool' = [pool EXCEPT ![requests[r].conn] = NoSettings]
    /\ UNCHANGED <<auth_users, committed>>

\* sql.end() reached while the transaction is still open.
End_BeforeTransactionEnds(r) ==
    /\ requests[r].pc \in {"callback", "committed", "rolled_back", "public_done"}
    /\ requests' = [requests EXCEPT ![r].pc = "closed"]
    /\ \/ pool' = pool
       \/ pool' = [pool EXCEPT ![requests[r].conn] = NoSettings]
    /\ UNCHANGED <<auth_users, committed>>

\* finally: sql.end(). The client's connection goes back to the pool, which
\* may reset its session or hand it on as it is.
End(r) ==
    /\ requests[r].pc \in {"committed", "rolled_back", "public_done"}
    /\ requests' = [requests EXCEPT ![r].pc = "closed"]
    /\ \/ pool' = pool
       \/ pool' = [pool EXCEPT ![requests[r].conn] = NoSettings]
    /\ UNCHANGED <<auth_users, committed>>

InitGuard ==
    /\ rpt_tenants = [t \in Tenants |-> IF t = "T2" THEN "T1" ELSE NULL]
    /\ FilterIdle
    /\ HandlersIdle
    /\ AuthIdle
    /\ GuardIdle
    /\ EdgeIdle

NextGuard ==
    \/ CreateUser /\ UNCHANGED <<rpt_tenants, edgeVars, filterVars, handlerVars, authVars>>
    \/ UpdateUser /\ UNCHANGED <<rpt_tenants, edgeVars, filterVars, handlerVars, authVars>>
    \/ \E r \in Slots : Fetch(r) /\ UNCHANGED <<rpt_tenants, edgeVars, filterVars, handlerVars, authVars>>
    \/ \E r \in Slots : SetTenant(r) /\ UNCHANGED <<rpt_tenants, edgeVars, filterVars, handlerVars, authVars>>
    \/ \E r \in Slots : SetCustomer(r) /\ UNCHANGED <<rpt_tenants, edgeVars, filterVars, handlerVars, authVars>>
    \/ \E r \in Slots : CallbackWrite(r) /\ UNCHANGED <<rpt_tenants, edgeVars, filterVars, handlerVars, authVars>>
    \/ \E r \in Slots : CallbackRead(r) /\ UNCHANGED <<rpt_tenants, edgeVars, filterVars, handlerVars, authVars>>
    \/ \E r \in Slots : CallbackReturn(r) /\ UNCHANGED <<rpt_tenants, edgeVars, filterVars, handlerVars, authVars>>
    \/ \E r \in Slots : CallbackThrow(r) /\ UNCHANGED <<rpt_tenants, edgeVars, filterVars, handlerVars, authVars>>
    \/ \E r \in Slots : PublicAuth(r) /\ UNCHANGED <<rpt_tenants, edgeVars, filterVars, handlerVars, authVars>>
    \/ \E r \in Slots : End(r) /\ UNCHANGED <<rpt_tenants, edgeVars, filterVars, handlerVars, authVars>>

SpecGuard == InitGuard /\ [][NextGuard]_vars

\* C8: inside its transaction withTenantContext sets app.current_tenant to the
\* wildcard for an admin identity, whatever its tenant_id, and to the
\* identity's tenant_id for every other role.
C8_TenantSettingIsWildcardOrTenantId ==
    \A r \in Slots :
        requests[r].pc \in {"tenant_set", "callback"} =>
            requests[r].settings.current_tenant =
                IF requests[r].tenant.role = "admin" THEN Wildcard
                ELSE requests[r].tenant.tenant_id

\* C9: for every customer identity the customer marker app.current_customer is
\* set when the callback runs; for admin and tenant identities none is set.
C9_CustomerMarkerSetForCustomers ==
    \A r \in Slots :
        requests[r].pc = "callback" =>
            IF requests[r].tenant.role = "customer"
            THEN /\ requests[r].atCallback.current_customer # Unset
                 /\ requests[r].atCallback.current_customer = requests[r].tenant.customer_name
            ELSE requests[r].atCallback.current_customer = Unset

\* C10: when the callback returns, the transaction is committed and the
\* callback's result is what the caller gets; when the callback or a
\* context-setting statement fails, the failure reaches the caller and no
\* write of the transaction is committed or read by another transaction.
C10_CommitOnReturnRollbackOnFailure ==
    \A r \in Slots :
        LET q == requests[r] IN
        /\ q.cbResult \in {"200", "404"} =>
              /\ q.writes \subseteq committed
              /\ q.outcome = q.cbResult
        /\ q.cbResult \in {"throw", "context_failed"} =>
              /\ q.outcome = "error"
              /\ q.writes \cap committed = {}
              /\ \A o \in Slots \ {r} : q.writes \cap requests[o].seen = {}

\* Request r1 wrote and then threw; request r2 wrote, read and returned
\* afterwards: r2 saw its own write only, and only r2's write is committed.
C10_Witness ==
    /\ requests["r1"].cbResult = "throw"
    /\ requests["r1"].writes = {<<"r1", 1>>}
    /\ requests["r1"].pc = "closed"
    /\ requests["r2"].cbResult = "200"
    /\ requests["r2"].seen = {<<"r2", 1>>}
    /\ committed = {<<"r2", 1>>}

\* C11: once withTenantContext has finished for an identity, by commit or by
\* rollback, a later transaction on the same connection that has not yet set
\* its context sees no value of app.current_tenant or app.current_customer.
C11_SettingsEndWithTransaction ==
    \A r \in Slots : requests[r].pc = "begin" => requests[r].settings = NoSettings

\* The steps of one request in the order fetch and withTenantContext take them.
StepOrder ==
    {<<"idle", "begin">>, <<"idle", "closed">>,
     <<"begin", "tenant_set">>, <<"begin", "rolled_back">>,
     <<"tenant_set", "callback">>, <<"tenant_set", "rolled_back">>,
     <<"callback", "callback">>, <<"callback", "committed">>,
     <<"callback", "rolled_back">>,
     <<"committed", "closed">>, <<"rolled_back", "closed">>,
     <<"idle", "public">>, <<"public", "public_done">>, <<"public_done", "closed">>}

ContextOf(tenant, start) ==
    LET t == RunStatements(TenantStatement(tenant),
                           [settings |-> start, pending |-> NoSettings])
        c == RunStatements(CustomerStatement(tenant),
                           [settings |-> t.settings, pending |-> t.pending])
    IN IF tenant.role = "customer" /\ tenant.customer_name # <<>>
       THEN c.settings ELSE t.settings

GuardStep(A) == A /\ UNCHANGED <<rpt_tenants, edgeVars, filterVars, handlerVars, authVars>>

\* The requests of a deployment whose users stay as they are: no user is
\* created or updated while the requests run.
NextGuardLive ==
    \/ \E r \in Slots : GuardStep(Fetch(r))
    \/ \E r \in Slots : GuardStep(SetTenant(r))
    \/ \E r \in Slots : GuardStep(SetCustomer(r))
    \/ \E r \in Slots : GuardStep(CallbackWrite(r))
    \/ \E r \in Slots : GuardStep(CallbackRead(r))
    \/ \E r \in Slots : GuardStep(CallbackReturn(r))
    \/ \E r \in Slots : GuardStep(CallbackThrow(r))
    \/ \E r \in Slots : GuardStep(PublicAuth(r))
    \/ \E r \in Slots : GuardStep(End(r))

SpecGuardLive ==
    /\ InitGuard
    /\ [][NextGuardLive]_vars
    /\ \A r \in Slots :
          /\ WF_vars(GuardStep(SetTenant(r)))
          /\ WF_vars(GuardStep(SetCustomer(r)))
          /\ WF_vars(GuardStep(CallbackReturn(r) \/ CallbackThrow(r)))
          /\ WF_vars(GuardStep(PublicAuth(r)))
          /\ WF_vars(GuardStep(End(r)))

\* C14: a request that has created a database client eventually closes it,
\* whether its handler returned or threw, its transaction failed, or it was a
\* public auth route.
C14_ClientEventuallyClosed ==
    \A r \in Slots : ClientOpen(r) ~> (requests[r].pc = "closed")

\* Request r1's handler threw inside its transaction and r2, on a public auth
\* route, answered 500: both clients are closed.
C14_Witness ==
    /\ requests["r1"].cbResult = "throw"
    /\ requests["r1"].pc = "closed"
    /\ requests["r2"].conn \in Conns
    /\ requests["r2"].tenant = GuardNoTenant
    /\ requests["r2"].outcome = "500"
    /\ requests["r2"].pc = "closed"

\* C15: the text of the statements withTenantContext sends is the same for
\* any two identities of one role: tenant_id and customer_name travel outside
\* the statement text and never change it.
C15_StatementTextIndependentOfIdentity ==
    \A a, b \in Slots :
        LET ta == requests[a].tenant
            tb == requests[b].tenant
        IN (ta.role # None /\ ta.role = tb.role) =>
              /\ TenantStatement(ta) = TenantStatement(tb)
              /\ (ta.role = "customer" /\ ta.customer_name # <<>>
                      /\ tb.customer_name # <<>>) =>
                    CustomerStatement(ta) = CustomerStatement(tb)

\* C20: every identity a request resolved to with role customer carries a
\* non-empty customer_name.
C20_CustomerIdentityHasName ==
    \A r \in Slots :
        requests[r].tenant.role = "customer" => requests[r].tenant.customer_name # <<>>

\* ------------------------------------------------------------- SpecRoute

\* errorResponse: { error, status } and, when detail is truthy, detail. A
\* detail is a sequence of pieces, <<>> when absent.
errorResponse(status, message, detail) ==
    [status  |-> status,
     body    |-> IF detail # <<>>
                 THEN [error |-> message, status |-> status, detail |-> detail]
                 ELSE [error |-> message, status |-> status],
     handler |-> None]

\* requireAdmin with the test of auth_method left out.
requireAdmin_RoleOnly(tenant) ==
    IF tenant.role # "admin"
    THEN <<errorResponse(403, "Forbidden", <<"Admin role required">>)>>
    ELSE <<>>

\* <<>> stands for null (authorized), <<response>> for the 403 returned.
requireAdmin(tenant) ==
    IF tenant.role # "admin"
    THEN <<errorResponse(403, "Forbidden", <<"Admin role required">>)>>
    ELSE IF tenant.auth_method # "jwt"
    THEN <<errorResponse(403, "Forbidden",
                         <<"JWT authentication required for admin operations">>)>>
    ELSE <<>>

\* A handler ran and answered.
Handled(h) == [status |-> 200, body |-> [data |-> h], handler |-> h]

\* apiPath is the sequence of its segments: /admin/users/u1 is
\* <<"admin", "users", "u1">>.
AdminHandlers ==
    {"handleListUsers", "handleCreateUser", "handleListTenants", "handleListSessions",
     "handleAdminResetPassword", "handleRevokeSession", "handleGetUser",
     "handleUpdateUser", "handleDeleteUser"}

routeAdminRequest(method, apiPath) ==
    CASE method = "GET" /\ apiPath = <<"admin", "users">> -> Handled("handleListUsers")
      [] method = "POST" /\ apiPath = <<"admin", "users">> -> Handled("handleCreateUser")
      [] method = "GET" /\ apiPath = <<"admin", "tenants">> -> Handled("handleListTenants")
      [] method = "GET" /\ apiPath = <<"admin", "sessions">> -> Handled("handleListSessions")
      [] method = "POST" /\ Len(apiPath) = 4 /\ SubSeq(apiPath, 1, 2) = <<"admin", "users">>
            /\ apiPath[4] = "reset-password" -> Handled("handleAdminResetPassword")
      [] method = "DELETE" /\ Len(apiPath) = 3
            /\ SubSeq(apiPath, 1, 2) = <<"admin", "sessions">> -> Handled("handleRevokeSession")
      [] method = "GET" /\ Len(apiPath) = 3
            /\ SubSeq(apiPath, 1, 2) = <<"admin", "users">> -> Handled("handleGetUser")
      [] method = "PUT" /\ Len(apiPath) = 3
            /\ SubSeq(apiPath, 1, 2) = <<"admin", "users">> -> Handled("handleUpdateUser")
      [] method = "DELETE" /\ Len(apiPath) = 3
            /\ SubSeq(apiPath, 1, 2) = <<"admin", "users">> -> Handled("handleDeleteUser")
      [] OTHER -> errorResponse(404, "Not Found", <<"No admin route matches">>)

\* startsWith('/admin/'): the first segment is admin and another follows.
routeRequest(method, apiPath, tenant) ==
    CASE method = "POST" /\ apiPath = <<"auth", "logout">> -> Handled("handleLogout")
      [] method = "GET" /\ apiPath = <<"auth", "me">> -> Handled("handleMe")
      [] Len(apiPath) >= 2 /\ apiPath[1] = "admin" ->
            IF requireAdmin(tenant) # <<>> THEN requireAdmin(tenant)[1]
            ELSE routeAdminRequest(method, apiPath)
      [] method = "GET" /\ apiPath = <<"usage", "summary">> -> Handled("handleUsageSummary")
      [] method = "GET" /\ apiPath = <<"bundles">> -> Handled("handleBundlesList")
      [] method = "POST" /\ apiPath = <<"export">> -> Handled("handleExport")
      [] OTHER -> errorResponse(404, "Not Found", <<"No route matches">>)

\* The error's message is a sequence of pieces; includes() finds a piece.
Includes(msg, piece) == \E i \in 1..Len(msg) : msg[i] = piece

\* The catch block of fetch.
FetchCatch(msg) ==
    IF Includes(msg, "timeout") \/ Includes(msg, "TIMEOUT")
    THEN errorResponse(504, "Gateway Timeout", <<"The query took too long to process">>)
    ELSE errorResponse(500, "Internal Server Error", msg)

\* Identities authenticateTenant can return: a session token's, or a service
\* token's record as stored, of any role.
RouteIdentities ==
    {TenantInfo(t, role, None, method) :
        t \in {"T1", "T2"}, role \in Roles, method \in {"jwt", "service_token"}}

ApiPaths ==
    {<<"auth", "me">>, <<"admin">>, <<"admin", "users">>, <<"admin", "tenants">>,
     <<"admin", "users", "u1">>, <<"admin", "sessions", "s1">>,
     <<"admin", "users", "u1", "reset-password">>, <<"admin", "nothing">>,
     <<"usage", "summary">>, <<"export">>, <<"administrator">>}

\* Messages of errors thrown inside the try block: a missing relation, a
\* failed cast quoting the bound value, and two timeouts.
ErrorMessages ==
    {<<"relation ", "rpt_usage", " does not exist">>,
     <<"invalid input syntax for type uuid: ", "T2">>,
     <<"canceling statement due to statement ", "timeout">>,
     <<"CONNECT_", "TIMEOUT">>}

\* fetch after rate limiting: withTenantContext sets the context (which may
\* fail), routeRequest picks the handler (which may throw), and the catch block
\* answers for either failure.
Route ==
    \E tenant \in RouteIdentities, method \in {"GET", "POST", "PUT", "DELETE"},
       apiPath \in ApiPaths,
       failure \in {NoFailure}
                   \cup {[at |-> a, msg |-> m] : a \in {"guard", "handler"},
                                                 m \in ErrorMessages} :
        LET routed == routeRequest(method, apiPath, tenant) IN
        /\ RouteIdle
        /\ rtReq' = [tenant |-> tenant, method |-> method, apiPath |-> apiPath,
                     failure |-> failure]
        /\ rtOut' = IF failure.at = None THEN routed
                    ELSE IF failure.at = "guard" THEN FetchCatch(failure.msg)
                    ELSE IF routed.handler # None
                    THEN [FetchCatch(failure.msg) EXCEPT !.handler = routed.handler]
                    ELSE routed
        /\ UNCHANGED <<rpt_tenants, filterVars, handlerVars, authVars, guardVars, limitVars, loginVars>>

InitRoute ==
    /\ rpt_tenants = [t \in Tenants |-> IF t = "T2" THEN "T1" ELSE NULL]
    /\ FilterIdle
    /\ HandlersIdle
    /\ AuthIdle
    /\ GuardIdle
    /\ EdgeIdle

\* The response has been sent; nothing of the request is kept.
RouteDone ==
    /\ rtReq # NoRouteRequest
    /\ rtReq' = NoRouteRequest
    /\ rtOut' = NoResponse
    /\ UNCHANGED <<rpt_tenants, filterVars, handlerVars, authVars, guardVars, limitVars, loginVars>>

NextRoute == Route \/ RouteDone

SpecRoute == InitRoute /\ [][NextRoute]_vars

C22_FailureBodyIsOpaque ==
    (rtReq.failure.at # None /\ rtOut.status = 500) =>
        /\ \A m \in ErrorMessages :
              FetchCatch(m).status = 500 => FetchCatch(m).body = rtOut.body
        /\ "detail" \in DOMAIN rtOut.body => rtOut.body.detail # rtReq.failure.msg

\* --------------------------------------------------------- SpecRateLimit

\* RATE_LIMIT_PER_MINUTE as deployed here.
RateLimit == 6
\* resetAt: now + 60.
Window == 60
\* isExport ? 5 : 1
ExportWeight == 5
ClockStep == 30
MaxClock == 90
MaxCalls == 4

\* The total weight allowed so far in the window that ends at resetAt.
RECURSIVE Granted(_, _)
Granted(log, resetAt) ==
    IF log = <<>> THEN 0
    ELSE (IF Head(log).resetAt = resetAt THEN Head(log).weight ELSE 0)
         + Granted(Tail(log), resetAt)

RateTick ==
    /\ rlNow + ClockStep <= MaxClock
    /\ rlNow' = rlNow + ClockStep
    /\ UNCHANGED <<rlStore, rlProc, rlGranted>>

\* checkRateLimit up to the value of TENANT_KV.get: now is taken first.
RateGet(p, weight) ==
    /\ rlProc[p].pc = "idle"
    /\ Len(rlGranted) + Cardinality({q \in Callers : rlProc[q].pc = "read"}) < MaxCalls
    /\ rlProc' = [rlProc EXCEPT ![p] = [IdleCall EXCEPT !.pc = "read", !.weight = weight,
                                                       !.now = rlNow, !.state = rlStore]]
    /\ UNCHANGED <<rlNow, rlStore, rlGranted>>

\* checkRateLimit from the value read to its return: a window that ended or
\* was never stored starts afresh with count = weight; otherwise the call is
\* denied when count + weight exceeds the limit, else the new count is put.
RateDecide(p) ==
    LET c == rlProc[p]
        fresh == c.now >= c.state.resetAt
        newCount == c.state.count + c.weight
    IN /\ c.pc = "read"
       /\ IF fresh
          THEN /\ rlStore' = [count |-> c.weight, resetAt |-> c.now + Window]
               /\ rlProc' = [rlProc EXCEPT ![p].pc = "done", ![p].allowed = TRUE,
                                           ![p].resetAt = c.now + Window]
               /\ rlGranted' = Append(rlGranted, [weight |-> c.weight,
                                                  resetAt |-> c.now + Window])
          ELSE IF newCount > RateLimit
          THEN /\ rlProc' = [rlProc EXCEPT ![p].pc = "done", ![p].allowed = FALSE,
                                           ![p].resetAt = c.state.resetAt]
               /\ UNCHANGED <<rlStore, rlGranted>>
          ELSE /\ rlStore' = [count |-> newCount, resetAt |-> c.state.resetAt]
               /\ rlProc' = [rlProc EXCEPT ![p].pc = "done", ![p].allowed = TRUE,
                                           ![p].resetAt = c.state.resetAt]
               /\ rlGranted' = Append(rlGranted, [weight |-> c.weight,
                                                  resetAt |-> c.state.resetAt])
       /\ UNCHANGED rlNow

\* fetch answers 429 or goes on to the handler; the call's locals are gone.
RateReturn(p) ==
    /\ rlProc[p].pc = "done"
    /\ rlProc' = [rlProc EXCEPT ![p] = IdleCall]
    /\ UNCHANGED <<rlNow, rlStore, rlGranted>>

InitRateLimit ==
    /\ rpt_tenants = [t \in Tenants |-> IF t = "T2" THEN "T1" ELSE NULL]
    /\ FilterIdle
    /\ HandlersIdle
    /\ AuthIdle
    /\ GuardIdle
    /\ EdgeIdle

NextRateLimit ==
    \/ RateTick /\ UNCHANGED <<rpt_tenants, filterVars, handlerVars, authVars, guardVars, routeVars, loginVars>>
    \/ \E p \in Callers, weight \in {1, ExportWeight} :
          RateGet(p, weight)
          /\ UNCHANGED <<rpt_tenants, filterVars, handlerVars, authVars, guardVars, routeVars, loginVars>>
    \/ \E p \in Callers :
          RateDecide(p)
          /\ UNCHANGED <<rpt_tenants, filterVars, handlerVars, authVars, guardVars, routeVars, loginVars>>
    \/ \E p \in Callers :
          RateReturn(p)
          /\ UNCHANGED <<rpt_tenants, filterVars, handlerVars, authVars, guardVars, routeVars, loginVars>>

SpecRateLimit == InitRateLimit /\ [][NextRateLimit]_vars

\* C25: under every interleaving of the calls of one tenant, the weights of
\* the calls checkRateLimit allowed in one window never add up to more than
\* the limit.
C25_WindowTotalWithinLimit ==
    \A i \in 1..Len(rlGranted) : Granted(rlGranted, rlGranted[i].resetAt) <= RateLimit

\* ------------------------------------------------------------- SpecLogin

\* newCount >= 5
MaxFailedLogins == 5
\* Date.now() + 15 * 60 * 1000, in minutes
LockMinutes == 15
\* OTP_TTL_MINUTES || '5'
OtpMinutes == 5
\* expirationTtl: 600, in minutes
PendingMinutes == 10
\* auth_otp.max_attempts of the rows handleLogin inserts.
MaxAttempts == 2
LoginTick == 15
MaxLoginNow == 15
MaxWrong == 5
MaxOtps == 1

\* auth_users by email_lower: one active account, one disabled account.
Emails == {"a@x", "off@x", "nobody@x"}
Account(email) ==
    CASE email = "a@x" -> "active"
      [] email = "off@x" -> "inactive"
      [] OTHER -> "none"

errorAnswer(status, message) ==
    [status |-> status, body |-> [error |-> message, status |-> status]]

\* The id of the row handleVerifyOTP selects: the latest login_2fa row with
\* used_at IS NULL and expires_at > now(); 0 when there is none.
LatestUnused ==
    LET open == {i \in 1..Len(lgOtps) : ~lgOtps[i].used /\ lgOtps[i].expires_at > lgNow}
    IN IF open = {} THEN 0 ELSE CHOOSE i \in open : \A j \in open : j <= i

PendingHeld(kind, token) ==
    \E e \in lgPending : e.kind = kind /\ e.token = token /\ lgNow < e.expiresAt

LoginClock ==
    /\ lgNow + LoginTick <= MaxLoginNow
    /\ lgNow' = lgNow + LoginTick
    /\ UNCHANGED <<lgUser, lgOtps, lgPending, lgProc, lgWrong, lgLocked>>

\* handleLogin up to the await of verifyPassword: the row is selected, and the
\* request ends here for an unknown email, a locked or a disabled account.
LoginRead(p, email, password) ==
    /\ lgProc[p].pc = "idle"
    /\ lgProc' = [lgProc EXCEPT ![p] =
          IF Account(email) = "none"
          THEN [IdleClient EXCEPT !.op = "login", !.pc = "done",
                   !.response = errorAnswer(401, "Invalid email or password")]
          ELSE IF Account(email) = "active" /\ lgUser.locked_until > lgNow
          THEN [IdleClient EXCEPT !.op = "login", !.pc = "done", !.password = password,
                   !.seen = [NoSeen EXCEPT !.failed_logins = lgUser.failed_logins,
                                           !.locked_until = lgUser.locked_until],
                   !.response = errorAnswer(423, "Account temporarily locked")]
          ELSE IF Account(email) = "inactive"
          THEN [IdleClient EXCEPT !.op = "login", !.pc = "done",
                   !.response = errorAnswer(403, "Account disabled")]
          ELSE [IdleClient EXCEPT !.op = "login", !.pc = "checking", !.password = password,
                   !.seen = [NoSeen EXCEPT !.failed_logins = lgUser.failed_logins,
                                           !.locked_until = lgUser.locked_until]]]
    /\ UNCHANGED <<lgNow, lgUser, lgOtps, lgPending, lgWrong, lgLocked>>

\* handleLogin from the result of verifyPassword to the response. A wrong
\* password writes the count that was selected plus one, and the lock when
\* that reaches 5; a correct one resets the counter if the selected count was
\* above 0, inserts the OTP, sends it and puts otp_pending:<otpToken>.
LoginCheck(p, mailed) ==
    LET c == lgProc[p]
        newCount == c.seen.failed_logins + 1
        lockUntil == IF newCount >= MaxFailedLogins THEN lgNow + LockMinutes ELSE 0
        otpId == Len(lgOtps) + 1
    IN /\ c.pc = "checking"
       /\ IF c.password # "right"
          THEN /\ lgWrong < MaxWrong
               /\ mailed
               /\ lgUser' = [failed_logins |-> newCount, locked_until |-> lockUntil]
               /\ lgWrong' = lgWrong + 1
               /\ lgLocked' = (lgLocked \/ newCount >= MaxFailedLogins)
               /\ lgProc' = [lgProc EXCEPT ![p].pc = "done",
                     ![p].response = errorAnswer(401, "Invalid email or password")]
               /\ UNCHANGED <<lgOtps, lgPending>>
          ELSE /\ Len(lgOtps) < MaxOtps
               /\ lgUser' = IF c.seen.failed_logins > 0
                            THEN [failed_logins |-> 0, locked_until |-> 0]
                            ELSE lgUser
               /\ lgWrong' = 0
               /\ lgLocked' = FALSE
               /\ lgOtps' = Append(lgOtps, [attempts |-> 0, used |-> FALSE,
                                            expires_at |-> lgNow + OtpMinutes,
                                            sessions |-> 0, overMax |-> FALSE])
               /\ IF mailed
                  THEN /\ lgPending' = lgPending \cup
                             {[kind |-> "otp_pending", token |-> otpId,
                               expiresAt |-> lgNow + PendingMinutes]}
                       /\ lgProc' = [lgProc EXCEPT ![p].pc = "done",
                             ![p].response = [status |-> 200,
                                 body |-> [status |-> "otp_required", otp_token |-> otpId]]]
                  ELSE /\ UNCHANGED lgPending
                       /\ lgProc' = [lgProc EXCEPT ![p].pc = "done",
                             ![p].response =
                                 errorAnswer(503, "Failed to send verification email")]
       /\ UNCHANGED lgNow

\* handleVerifyOTP up to the await of hashOTP: the pending entry and the
\* latest unused row are read, and the attempt limit is checked on that row.
VerifyRead(p, otp_token, code) ==
    LET id == LatestUnused IN
    /\ lgProc[p].pc = "idle"
    /\ IF ~PendingHeld("otp_pending", otp_token)
       THEN /\ lgProc' = [lgProc EXCEPT ![p] = [IdleClient EXCEPT !.op = "verify",
                  !.pc = "done",
                  !.response = errorAnswer(401, "Invalid or expired verification session")]]
            /\ UNCHANGED lgPending
       ELSE IF id = 0
       THEN /\ lgProc' = [lgProc EXCEPT ![p] = [IdleClient EXCEPT !.op = "verify",
                  !.pc = "done",
                  !.response = errorAnswer(401, "Verification code expired")]]
            /\ UNCHANGED lgPending
       ELSE IF lgOtps[id].attempts >= MaxAttempts
       THEN /\ lgProc' = [lgProc EXCEPT ![p] = [IdleClient EXCEPT !.op = "verify",
                  !.pc = "done", !.response = errorAnswer(429, "Too many attempts")]]
            /\ lgPending' = {e \in lgPending :
                                ~(e.kind = "otp_pending" /\ e.token = otp_token)}
       ELSE /\ lgProc' = [lgProc EXCEPT ![p] = [IdleClient EXCEPT !.op = "verify",
                  !.pc = "verifying", !.otp_token = otp_token, !.code = code,
                  !.seen = [NoSeen EXCEPT !.otp = id, !.attempts = lgOtps[id].attempts]]]
            /\ UNCHANGED lgPending
    /\ UNCHANGED <<lgNow, lgUser, lgOtps, lgWrong, lgLocked>>

\* handleVerifyOTP from the comparison of the code to the response: a wrong
\* code adds one to attempts; a right one sets used_at, deletes the pending
\* entry and creates the session (counted on the row).
VerifyFinish(p) ==
    LET c == lgProc[p]
        id == c.seen.otp
    IN /\ c.pc = "verifying"
       /\ IF c.code # id
          THEN /\ lgOtps' = [lgOtps EXCEPT ![id].attempts = @ + 1]
               /\ lgProc' = [lgProc EXCEPT ![p].pc = "done",
                     ![p].response = errorAnswer(401, "Invalid verification code")]
               /\ UNCHANGED lgPending
          ELSE /\ lgOtps' = [lgOtps EXCEPT ![id].used = TRUE,
                                ![id].sessions = @ + 1,
                                ![id].overMax = (@ \/ lgOtps[id].attempts >= MaxAttempts)]
               /\ lgPending' = {e \in lgPending :
                                   ~(e.kind = "otp_pending" /\ e.token = c.otp_token)}
               /\ lgProc' = [lgProc EXCEPT ![p].pc = "done",
                     ![p].response = [status |-> 200,
                                      body |-> [token |-> "jwt", expires_at |-> "iso"]]]
       /\ UNCHANGED <<lgNow, lgUser, lgWrong, lgLocked>>

\* The body handleForgotPassword answers with: successMsg, and for an active
\* account successMsg spread with reset_token.
ForgotAnswer(account) ==
    LET successMsg == [status |-> "ok",
                       message |-> "If an account exists with that email, a reset code has been sent."]
    IN IF account # "active"
       THEN [status |-> 200, body |-> successMsg]
       ELSE [status |-> 200, body |-> successMsg @@ [reset_token |-> "uuid"]]

\* handleForgotPassword: for an active account the password_reset OTP is
\* inserted and reset_pending:<resetToken> is put.
ForgotPassword(p, email) ==
    /\ lgProc[p].pc = "idle"
    /\ lgProc' = [lgProc EXCEPT ![p] = [IdleClient EXCEPT !.op = "forgot", !.pc = "done",
                                           !.password = Account(email),
                                           !.response = ForgotAnswer(Account(email))]]
    /\ lgPending' = IF Account(email) = "active"
                    THEN {e \in lgPending : e.kind # "reset_pending"} \cup
                         {[kind |-> "reset_pending", token |-> 0,
                           expiresAt |-> lgNow + PendingMinutes]}
                    ELSE lgPending
    /\ UNCHANGED <<lgNow, lgUser, lgOtps, lgWrong, lgLocked>>

\* The response is sent; nothing of the request is kept.
LoginReturn(p) ==
    /\ lgProc[p].pc = "done"
    /\ lgProc' = [lgProc EXCEPT ![p] = IdleClient]
    /\ UNCHANGED <<lgNow, lgUser, lgOtps, lgPending, lgWrong, lgLocked>>

InitLogin ==
    /\ rpt_tenants = [t \in Tenants |-> IF t = "T2" THEN "T1" ELSE NULL]
    /\ FilterIdle
    /\ HandlersIdle
    /\ AuthIdle
    /\ GuardIdle
    /\ EdgeIdle

NextLogin ==
    \/ LoginClock /\ UNCHANGED <<rpt_tenants, filterVars, handlerVars, authVars, guardVars, routeVars, limitVars>>
    \/ \E p \in Clients, email \in Emails, password \in {"right", "wrong"} :
          LoginRead(p, email, password)
          /\ UNCHANGED <<rpt_tenants, filterVars, handlerVars, authVars, guardVars, routeVars, limitVars>>
    \/ \E p \in Clients, mailed \in BOOLEAN :
          LoginCheck(p, mailed)
          /\ UNCHANGED <<rpt_tenants, filterVars, handlerVars, authVars, guardVars, routeVars, limitVars>>
    \/ \E p \in Clients, otp_token \in 1..MaxOtps, code \in 0..MaxOtps :
          VerifyRead(p, otp_token, code)
          /\ UNCHANGED <<rpt_tenants, filterVars, handlerVars, authVars, guardVars, routeVars, limitVars>>
    \/ \E p \in Clients :
          VerifyFinish(p)
          /\ UNCHANGED <<rpt_tenants, filterVars, handlerVars, authVars, guardVars, routeVars, limitVars>>
    \/ \E p \in Clients, email \in Emails :
          ForgotPassword(p, email)
          /\ UNCHANGED <<rpt_tenants, filterVars, handlerVars, authVars, guardVars, routeVars, limitVars>>
    \/ \E p \in Clients :
          LoginReturn(p)
          /\ UNCHANGED <<rpt_tenants, filterVars, handlerVars, authVars, guardVars, routeVars, limitVars>>

SpecLogin == InitLogin /\ [][NextLogin]_vars

\* C28: each login OTP yields at most one session, whatever calls of
\* handleVerifyOTP run side by side, and no session is issued for an OTP whose
\* attempts counter has reached max_attempts.
C28_OneSessionPerOtp ==
    \A i \in 1..Len(lgOtps) : lgOtps[i].sessions <= 1 /\ ~lgOtps[i].overMax

\* C29: a stored count of 5 or more comes with a lock, and under every
\* interleaving of login attempts, once 5 wrong passwords have been checked
\* since the last correct one, a lock has been written.
C29_FiveWrongPasswordsLock ==
    /\ lgUser.failed_logins >= MaxFailedLogins => lgUser.locked_until > 0
    /\ lgWrong >= MaxFailedLogins => lgLocked

\* C30: the status and the body of the response of handleForgotPassword,
\* the set of fields included, are those the request would get for an email of
\* no account.
C30_ForgotPasswordHidesAccount ==
    \A p \in Clients :
        (lgProc[p].op = "forgot" /\ lgProc[p].pc = "done") =>
            /\ lgProc[p].response.status = ForgotAnswer("none").status
            /\ DOMAIN lgProc[p].response.body = DOMAIN ForgotAnswer("none").body
            /\ \A f \in DOMAIN ForgotAnswer("none").body :
                  lgProc[p].response.body[f] = ForgotAnswer("none").body[f]

=============================================================================
